---- MODULE Spec2Model ----
(***************************************************************************)
(* A model of the operator scripts of ntnx-v4api-cats:                     *)
(*   update_categories_for_vm.py      bulk category update from a sheet    *)
(*   experimental/deploy_windows_vm.py  VM provisioning with CLI flags     *)
(*   scratch/deploy_windows_vm.py       VM provisioning, interactive only  *)
(*                                                                         *)
(* A Python str is a sequence of one-character strings, so that strip,     *)
(* upper, lower, split and the "in" test are computed character by         *)
(* character.  A Python value that may be None, NaN or a str is a record   *)
(* [t, s].  The remote API, the operator at the terminal, the clock and    *)
(* the file system are the environment: their answers are drawn with \E.   *)
(***************************************************************************)
EXTENDS Integers, Sequences, FiniteSets, TLC

\* ------------------------------------------------------------------------
\* Bounds of the model
\* ------------------------------------------------------------------------
\* Rows of the 'ToUpdate' sheet below its header row.
MaxRows == 2

\* ------------------------------------------------------------------------
\* Python str methods
\* ------------------------------------------------------------------------
Whitespace == {" ", "\t"}

LowerAlpha ==
  <<"a","b","c","d","e","f","g","h","i","j","k","l","m",
    "n","o","p","q","r","s","t","u","v","w","x","y","z">>

UpperAlpha ==
  <<"A","B","C","D","E","F","G","H","I","J","K","L","M",
    "N","O","P","Q","R","S","T","U","V","W","X","Y","Z">>

char_upper(c) ==
  IF \E i \in 1..Len(LowerAlpha) : LowerAlpha[i] = c
  THEN UpperAlpha[CHOOSE i \in 1..Len(LowerAlpha) : LowerAlpha[i] = c]
  ELSE c

char_lower(c) ==
  IF \E i \in 1..Len(UpperAlpha) : UpperAlpha[i] = c
  THEN LowerAlpha[CHOOSE i \in 1..Len(UpperAlpha) : UpperAlpha[i] = c]
  ELSE c

str_upper(s) == [i \in 1..Len(s) |-> char_upper(s[i])]

str_lower(s) == [i \in 1..Len(s) |-> char_lower(s[i])]

RECURSIVE str_lstrip(_)
str_lstrip(s) ==
  IF s # <<>> /\ Head(s) \in Whitespace THEN str_lstrip(Tail(s)) ELSE s

RECURSIVE str_rstrip(_)
str_rstrip(s) ==
  IF s # <<>> /\ s[Len(s)] \in Whitespace
  THEN str_rstrip(SubSeq(s, 1, Len(s) - 1))
  ELSE s

str_strip(s) == str_rstrip(str_lstrip(s))

\* sub in s
str_contains(s, sub) ==
  \E i \in 1..(Len(s) - Len(sub) + 1) : SubSeq(s, i, i + Len(sub) - 1) = sub

str_startswith(s, p) == Len(p) <= Len(s) /\ SubSeq(s, 1, Len(p)) = p

\* Position of the first occurrence of the character c in s (0: none).
str_find(s, c) ==
  IF \E i \in 1..Len(s) : s[i] = c
  THEN CHOOSE i \in 1..Len(s) : s[i] = c /\ \A j \in 1..(i - 1) : s[j] # c
  ELSE 0

\* s.split(c): every field between occurrences of c, empty fields kept.
RECURSIVE str_split(_, _)
str_split(s, c) ==
  IF str_find(s, c) = 0
  THEN <<s>>
  ELSE <<SubSeq(s, 1, str_find(s, c) - 1)>>
         \o str_split(SubSeq(s, str_find(s, c) + 1, Len(s)), c)

\* s.split(c, 1): cut at the first occurrence of c only.
str_split1(s, c) ==
  IF str_find(s, c) = 0
  THEN <<s>>
  ELSE <<SubSeq(s, 1, str_find(s, c) - 1), SubSeq(s, str_find(s, c) + 1, Len(s))>>

Digits == <<"0","1","2","3","4","5","6","7","8","9">>

\* str(n) of a non-negative int.
RECURSIVE int_str(_)
int_str(n) ==
  IF n < 10 THEN <<Digits[n + 1]>> ELSE int_str(n \div 10) \o <<Digits[(n % 10) + 1]>>

\* ------------------------------------------------------------------------
\* Python values: None, float NaN (pandas' empty cell) and str
\* ------------------------------------------------------------------------
PyNone == [t |-> "None", s |-> <<>>]

PyNaN == [t |-> "nan", s |-> <<>>]

PyStr(s) == [t |-> "str", s |-> s]

S_None == <<"N", "o", "n", "e">>

S_nan == <<"n", "a", "n">>

\* str(v)
py_str(v) ==
  IF v.t = "str" THEN v.s ELSE IF v.t = "nan" THEN S_nan ELSE S_None

\* Faulty variant of Truthy: the test `v is not None`, under which '' passes.
Truthy_is_not_none(v) == v.t = "str"

\* bool(v) of a value that is None or a str
Truthy(v) == v.t = "str" /\ v.s # <<>>

\* ------------------------------------------------------------------------
\* files/vars.txt and its loaders
\* ------------------------------------------------------------------------
K_baseUrl == <<"b", "a", "s", "e", "U", "r", "l">>

K_username == <<"u", "s", "e", "r", "n", "a", "m", "e">>

K_password == <<"p", "a", "s", "s", "w", "o", "r", "d">>

required_keys == <<K_baseUrl, K_username, K_password>>

L_baseUrl ==
  <<"b","a","s","e","U","r","l","=","h","t","t","p","s",":","/","/","p","c","/","a","p","i">>

L_username == <<"u","s","e","r","n","a","m","e","=","a","d","m","i","n">>

L_password == <<"p","a","s","s","w","o","r","d","=","p","w">>

L_baseUrl_spaced ==
  <<"b","a","s","e","U","r","l"," ","="," ","h","t","t","p","s",":","/","/","p","c","/","a","p","i">>

L_password_empty == <<"p","a","s","s","w","o","r","d","=">>

L_password_commented == <<"#","p","a","s","s","w","o","r","d","=","p","w">>

L_comment == <<"#"," ","P","r","i","s","m"," ","C","e","n","t","r","a","l">>

\* The contents files/vars.txt may have when a script starts: absent, or its lines.
VarsFiles ==
  { [exists |-> FALSE, lines |-> <<>>],
    [exists |-> TRUE,  lines |-> <<>>],
    [exists |-> TRUE,  lines |-> <<L_comment, L_baseUrl, L_username, L_password>>],
    [exists |-> TRUE,  lines |-> <<L_baseUrl_spaced, L_username, L_password>>],
    [exists |-> TRUE,  lines |-> <<L_baseUrl, L_username, L_password_empty>>],
    [exists |-> TRUE,  lines |-> <<L_baseUrl, L_username>>],
    [exists |-> TRUE,  lines |-> <<L_username, L_password>>],
    [exists |-> TRUE,  lines |-> <<L_baseUrl, L_username, L_password_commented>>] }

\* A Python dict with str keys.
EmptyDict == [k \in {} |-> <<>>]

dict_set(d, k, v) == [x \in (DOMAIN d) \cup {k} |-> IF x = k THEN v ELSE d[x]]

dict_get(d, k, default) == IF k \in DOMAIN d THEN d[k] ELSE default

\* update_categories_for_vm.py: every line holding '=' is cut at its first '=';
\* neither the key nor the value is stripped and comment lines are not skipped.
RECURSIVE update_parse_lines(_, _)
update_parse_lines(lines, d) ==
  IF lines = <<>> THEN d
  ELSE LET line == str_strip(Head(lines))
       IN  update_parse_lines(
             Tail(lines),
             IF str_find(line, "=") # 0
             THEN dict_set(d, str_split1(line, "=")[1], str_split1(line, "=")[2])
             ELSE d)

update_read_vars_file(file) ==
  IF ~file.exists
  THEN [exit |-> TRUE, config |-> EmptyDict]
  ELSE [exit |-> FALSE, config |-> update_parse_lines(file.lines, EmptyDict)]

\* deploy_windows_vm.py (both): blank and '#' lines are skipped, key and value are
\* stripped.
RECURSIVE deploy_parse_lines(_, _)
deploy_parse_lines(lines, d) ==
  IF lines = <<>> THEN d
  ELSE LET line == str_strip(Head(lines))
       IN  deploy_parse_lines(
             Tail(lines),
             IF line # <<>> /\ ~str_startswith(line, <<"#">>) /\ str_find(line, "=") # 0
             THEN dict_set(d, str_strip(str_split1(line, "=")[1]),
                              str_strip(str_split1(line, "=")[2]))
             ELSE d)

deploy_read_vars_file(file) ==
  IF ~file.exists
  THEN [exit |-> TRUE, config |-> EmptyDict]
  ELSE LET config == deploy_parse_lines(file.lines, EmptyDict)
       IN  IF \E i \in 1..Len(required_keys) : required_keys[i] \notin DOMAIN config
           THEN [exit |-> TRUE, config |-> config]
           ELSE [exit |-> FALSE, config |-> config]

\* Faulty variant of update_load_config: the password is not among the values
\* whose presence is checked.
update_load_config_password_unchecked(file) ==
  LET r        == update_read_vars_file(file)
      base_url == dict_get(r.config, K_baseUrl, <<>>)
      username == dict_get(r.config, K_username, <<>>)
      password == dict_get(r.config, K_password, <<>>)
  IN  [exit     |-> r.exit \/ ~(base_url # <<>> /\ username # <<>>),
       base_url |-> base_url, username |-> username, password |-> password]

\* main of update_categories_for_vm.py, lines 183-190: the three values, and
\* whether the run goes on (all of them non-empty).
update_load_config(file) ==
  LET r        == update_read_vars_file(file)
      base_url == dict_get(r.config, K_baseUrl, <<>>)
      username == dict_get(r.config, K_username, <<>>)
      password == dict_get(r.config, K_password, <<>>)
  IN  [exit     |-> r.exit \/ ~(base_url # <<>> /\ username # <<>> /\ password # <<>>),
       base_url |-> base_url, username |-> username, password |-> password]

\* The Basic credential: base64 of "username:password", kept as the pair it encodes.
create_auth_header(username, password) ==
  [name \in {"Authorization"} |-> [scheme |-> "Basic", b64 |-> username \o <<":">> \o password]]

\* ------------------------------------------------------------------------
\* scratch/VMsToUpdate-PROD.xlsx, sheet 'ToUpdate'
\* ------------------------------------------------------------------------
H_VMName == <<"V","M"," ","N","a","m","e">>

H_VMextId == <<"V","M"," ","e","x","t","I","d">>

H_Cats == <<"C","a","t","e","g","o","r","y"," ","U","U","I","D","(","s",")">>

H_Match ==
  <<"V","M"," ","N","a","m","e","/","e","x","t","I","d"," ","&"," ","C","a","t","e","g",
    "o","r","y"," ","e","x","I","d","(","s",")"," ","M","a","t","c","h">>

H_Status == <<"S","t","a","t","u","s"," ","o","f"," ","U","p","d","a","t","e">>

H_Timestamp == <<"T","i","m","e","s","t","a","m","p">>

H_Both ==
  <<"T","i","m","e","s","t","a","m","p"," ","o","f"," ","s","t","a","t","u","s"," ","o","f",
    " ","u","p","d","a","t","e">>

H_Notes == <<"N","o","t","e","s">>

H_Owner == <<"O","w","n","e","r">>

K_STATUS == <<"S","T","A","T","U","S"," ","O","F"," ","U","P","D","A","T","E">>

K_TIMESTAMP == <<"T","I","M","E","S","T","A","M","P">>

S_OK == <<"O","K">>

S_OK_padded == <<" ","O","k"," ">>

S_SKIP == <<"S","K","I","P">>

S_vm1 == <<"v","m","1">>

S_id1 == <<"i","d","1">>

S_vm2 == <<"v","m","2">>

S_id2 == <<"i","d","2">>

S_c1c2 == <<"c","1",",","c","2">>

S_c1_dup == <<"c","1",","," ",",","c","1">>

S_commas == <<","," ",",">>

S_blank == <<" ">>

S_ACCEPTED == <<"A","C","C","E","P","T","E","D">>

S_FAILED_open == <<"F","A","I","L","E","D"," ","(">>

S_NA == <<"N","/","A">>

T_before == <<"3","1","1","0","2","0","2","5","-","1","7","3","0">>

T_0959 == <<"0","1","1","1","2","0","2","5","-","0","9","5","9">>

T_1000 == <<"0","1","1","1","2","0","2","5","-","1","0","0","0">>

T_095959 == <<"2","0","2","5","1","1","0","1","-","0","9","5","9","5","9">>

T_100000 == <<"2","0","2","5","1","1","0","1","-","1","0","0","0","0","0">>

\* Successive readings of datetime.now(), each under the two formats in use:
\* strftime("%d%m%Y-%H%M") and strftime("%Y%m%d-%H%M%S").
Clock ==
  << [dmy_hm |-> T_0959, ymd_hms |-> T_095959],
     [dmy_hm |-> T_1000, ymd_hms |-> T_100000] >>

\* Header rows the sheet may have.  The data columns come first; the last two
\* columns are where an earlier run or the operator put status and timestamp.
HeaderRows ==
  { <<H_VMName, H_VMextId, H_Cats, H_Match, H_Status, H_Timestamp>>,
    <<H_VMName, H_VMextId, H_Cats, H_Match, H_Both, H_Notes>>,
    <<H_VMName, H_VMextId, H_Cats, H_Match, H_Notes, H_Owner>>,
    <<H_VMName, H_VMextId, H_Notes, H_Match, H_Status, H_Timestamp>> }

\* Cells of one data row, in column order.  An empty cell is None.
Cells(name, extid, cats, match, status, ts) == <<name, extid, cats, match, status, ts>>

\* The rows an operator's sheet holds, top to bottom: a row that an earlier run
\* already stamped and that is now marked SKIP, two rows to update (the second
\* with its match value typed as ' Ok '), a row whose category cell holds only
\* separators, a row whose category cell is empty, one whose category cell holds
\* a blank, and a row with no match value.
MasterRows ==
  << Cells(PyStr(S_vm1), PyStr(S_id1), PyStr(S_c1c2),   PyStr(S_SKIP),
           PyStr(S_ACCEPTED), PyStr(T_before)),
     Cells(PyStr(S_vm1), PyStr(S_id1), PyStr(S_c1_dup), PyStr(S_OK),        PyNone, PyNone),
     Cells(PyStr(S_vm2), PyStr(S_id2), PyStr(S_c1c2),   PyStr(S_OK_padded), PyNone, PyNone),
     Cells(PyStr(S_vm1), PyStr(S_id1), PyStr(S_commas), PyStr(S_OK),        PyNone, PyNone),
     Cells(PyStr(S_vm2), PyStr(S_id2), PyNone,          PyStr(S_OK),        PyNone, PyNone),
     Cells(PyStr(S_vm1), PyStr(S_id1), PyStr(S_blank),  PyStr(S_OK),        PyNone, PyNone),
     Cells(PyStr(S_vm2), PyStr(S_id2), PyStr(S_c1c2),   PyNone,             PyNone, PyNone) >>

\* The sheets under test: every run of 1..MaxRows consecutive rows of MasterRows.
Sheets ==
  UNION { { SubSeq(MasterRows, a, a + n - 1) : a \in 1..(Len(MasterRows) - n + 1) } :
            n \in 1..MaxRows }

\* The workbook on disk when the bulk update starts.
Workbooks ==
  { [exists |-> FALSE, hdr |-> <<>>, rows |-> <<>>] }
    \cup { [exists |-> TRUE, hdr |-> h, rows |-> r] :
             h \in HeaderRows, r \in { s \in Sheets : Len(s) <= MaxRows } }

\* pd.read_excel: the header row names the columns, an empty cell reads as NaN.
read_excel(book) ==
  [columns |-> book.hdr,
   data    |-> [i \in 1..Len(book.rows) |->
                 [c \in 1..Len(book.hdr) |->
                   IF book.rows[i][c] = PyNone THEN PyNaN ELSE book.rows[i][c]]]]

NoFrame == [columns |-> <<>>, data |-> <<>>]

\* row.get(name, default) of the row at position index (0-based) of df.iterrows().
row_get(frame, index, name, default) ==
  IF \E c \in 1..Len(frame.columns) : frame.columns[c] = name
  THEN frame.data[index + 1][CHOOSE c \in 1..Len(frame.columns) :
                               /\ frame.columns[c] = name
                               /\ \A b \in 1..(c - 1) : frame.columns[b] # name]
  ELSE default

\* str(row.get(name, '')).strip()
row_field(frame, index, name) == str_strip(py_str(row_get(frame, index, name, PyStr(<<>>))))

\* Faulty variant of is_eligible: any row that has a match value is processed.
is_eligible_any_value(match_status) == match_status # <<>>

\* main, line 219
is_eligible(match_status) == str_upper(match_status) = S_OK

\* [x.strip() for x in parts if x.strip()]
strip_nonempty(parts) ==
  LET nonempty(x) == x # <<>>
  IN  SelectSeq([i \in 1..Len(parts) |-> str_strip(parts[i])], nonempty)

\* main, line 233
parse_category_uuids(category_uuids_str) == strip_nonempty(str_split(category_uuids_str, ","))

\* Faulty variant of build_categories_payload: an entry that occurs twice is
\* sent once.
build_categories_payload_distinct(category_uuids) ==
  LET kept   == strip_nonempty(category_uuids)
      firsts == { i \in 1..Len(kept) : \A j \in 1..(i - 1) : kept[j] # kept[i] }
      nth(n) == CHOOSE i \in firsts : Cardinality({ j \in firsts : j < i }) = n - 1
  IN  [categories |-> [n \in 1..Cardinality(firsts) |-> [extId |-> kept[nth(n)]]]]

build_categories_payload(category_uuids) ==
  LET kept == strip_nonempty(category_uuids)
  IN  [categories |-> [i \in 1..Len(kept) |-> [extId |-> kept[i]]]]

\* ------------------------------------------------------------------------
\* HTTP exchanges
\* ------------------------------------------------------------------------
E_1 == <<"W","/","1">>

E_2 == <<"W","/","2">>

\* A JSON document as the scripts look at it: whether the dict is non-empty,
\* whether it has a 'data' key, and the list under it.
EmptyDoc == [truthy |-> FALSE, has_data |-> FALSE, data |-> <<>>]

MetaDoc == [truthy |-> TRUE, has_data |-> FALSE, data |-> <<>>]

DataDoc(items) == [truthy |-> TRUE, has_data |-> TRUE, data |-> items]

\* requests raised a transport error (connection, timeout): no response.
NoResponse ==
  [kind |-> "error", status |-> 0, etag |-> PyNone, body |-> "empty", doc |-> EmptyDoc]

\* Nothing in flight.
NoExchange ==
  [kind |-> "none", status |-> 0, etag |-> PyNone, body |-> "empty", doc |-> EmptyDoc]

\* A response: its status, its ETag header (None: no such header), its body:
\* "json" (parses as JSON), "text" (does not) or "empty", and the document a JSON
\* body holds.
ApiResponse(status, etag, body, doc) ==
  [kind |-> "response", status |-> status, etag |-> etag, body |-> body, doc |-> doc]

Response(status, etag, body) ==
  ApiResponse(status, etag, body, IF body = "json" THEN MetaDoc ELSE EmptyDoc)

\* What the API may answer to GET .../vms/{extId}.
GetResponses ==
  { NoResponse,
    Response(200, PyStr(E_1), "json"),
    Response(200, PyStr(E_2), "json"),
    Response(200, PyNone, "json"),
    Response(200, PyStr(<<>>), "json"),
    Response(200, PyStr(E_1), "text"),
    Response(404, PyNone, "json"),
    Response(500, PyStr(E_2), "empty"),
    Response(503, PyStr(E_1), "json") }

\* What the API may answer to POST .../$actions/associate-categories.
PostResponses ==
  { NoResponse,
    Response(200, PyStr(E_2), "json"),
    Response(201, PyNone, "json"),
    Response(202, PyStr(E_2), "json"),
    Response(202, PyNone, "empty"),
    Response(204, PyNone, "empty"),
    Response(404, PyNone, "json"),
    Response(412, PyNone, "json"),
    Response(500, PyNone, "text") }

\* bool(response): requests.Response.__bool__ is response.ok, false for 4xx and 5xx.
response_truth(r) == r.kind = "response" /\ ~(r.status >= 400 /\ r.status < 600)

\* make_get_request: response.json() is evaluated before the ETag is read; a body
\* that is not JSON raises requests' JSONDecodeError, a RequestException.
make_get_request(r) ==
  IF r.kind = "error" \/ r.body # "json"
  THEN [vm_etag |-> PyNone, body |-> FALSE]
  ELSE [vm_etag |-> IF r.etag = PyNone THEN PyStr(<<>>) ELSE r.etag, body |-> TRUE]

\* make_post_request: the response, or None on a transport error.
make_post_request(r) == IF r.kind = "error" THEN NoResponse ELSE r

\* Faulty variant of post_outcome: any 2xx status counts as accepted.
post_outcome_any_2xx(post_response) ==
  IF response_truth(post_response)
     /\ post_response.status >= 200 /\ post_response.status < 300
  THEN S_ACCEPTED
  ELSE S_FAILED_open
         \o (IF response_truth(post_response) THEN int_str(post_response.status) ELSE S_NA)
         \o <<")">>

\* main, lines 269-284: the status handed to update_excel_status.
post_outcome(post_response) ==
  IF response_truth(post_response) /\ post_response.status = 202
  THEN S_ACCEPTED
  ELSE S_FAILED_open
         \o (IF response_truth(post_response) THEN int_str(post_response.status) ELSE S_NA)
         \o <<")">>

\* Index of the last TRUE of a sequence of booleans (0: none).
last_true(flags) ==
  IF \E c \in 1..Len(flags) : flags[c]
  THEN CHOOSE c \in 1..Len(flags) : flags[c] /\ \A d \in (c + 1)..Len(flags) : ~flags[d]
  ELSE 0

is_status_header(h) == h # <<>> /\ str_contains(str_upper(h), K_STATUS)

is_timestamp_header(h) ==
  ~is_status_header(h) /\ h # <<>> /\ str_contains(str_upper(h), K_TIMESTAMP)

\* status_col / timestamp_col after the scan of the header row: the last column
\* whose header matched (0: none).
status_col_of(hdr) == last_true([c \in 1..Len(hdr) |-> is_status_header(hdr[c])])

timestamp_col_of(hdr) == last_true([c \in 1..Len(hdr) |-> is_timestamp_header(hdr[c])])

\* Faulty variant of update_excel_status: a column that the header row does not
\* name defaults to the fifth (status) or sixth (timestamp) column.
update_excel_status_default_columns(book, row_index, status, timestamp, io_ok) ==
  LET status_col    == IF status_col_of(book.hdr) # 0 THEN status_col_of(book.hdr) ELSE 5
      timestamp_col == IF timestamp_col_of(book.hdr) # 0
                       THEN timestamp_col_of(book.hdr) ELSE 6
      r             == (row_index + 2) - 1
      with_status   == [book.rows EXCEPT ![r][status_col] = PyStr(status)]
      with_both     == [with_status EXCEPT ![r][timestamp_col] = PyStr(timestamp)]
  IN  IF io_ok THEN [book EXCEPT !.rows = with_both] ELSE book

\* Faulty variant of update_excel_status: the cells are set in the loaded
\* workbook, which is never saved.
update_excel_status_unsaved(book, row_index, status, timestamp, io_ok) == book

\* Faulty variant of update_excel_status: the header row is not counted, so the
\* cells of the sheet row above the intended one are written (for the first data
\* row, the header cells themselves).
update_excel_status_row_above(book, row_index, status, timestamp, io_ok) ==
  LET status_col    == status_col_of(book.hdr)
      timestamp_col == timestamp_col_of(book.hdr)
      r             == (row_index + 1) - 1
      hdr_status    == IF status_col # 0
                       THEN [book.hdr EXCEPT ![status_col] = status]
                       ELSE book.hdr
      hdr_both      == IF timestamp_col # 0
                       THEN [hdr_status EXCEPT ![timestamp_col] = timestamp]
                       ELSE hdr_status
      with_status   == IF status_col # 0
                       THEN [book.rows EXCEPT ![r][status_col] = PyStr(status)]
                       ELSE book.rows
      with_both     == IF timestamp_col # 0
                       THEN [with_status EXCEPT ![r][timestamp_col] = PyStr(timestamp)]
                       ELSE with_status
  IN  IF ~io_ok THEN book
      ELSE IF r = 0 THEN [book EXCEPT !.hdr = hdr_both]
      ELSE [book EXCEPT !.rows = with_both]

\* Faulty variant of update_excel_status: the cells are written into the first
\* data row of the sheet, whichever record the call is made for.
update_excel_status_first_row(book, row_index, status, timestamp, io_ok) ==
  LET status_col    == status_col_of(book.hdr)
      timestamp_col == timestamp_col_of(book.hdr)
      r             == 2 - 1
      with_status   == IF status_col # 0
                       THEN [book.rows EXCEPT ![r][status_col] = PyStr(status)]
                       ELSE book.rows
      with_both     == IF timestamp_col # 0
                       THEN [with_status EXCEPT ![r][timestamp_col] = PyStr(timestamp)]
                       ELSE with_status
  IN  IF io_ok THEN [book EXCEPT !.rows = with_both] ELSE book

\* update_excel_status: the workbook after the call.  io_ok is whether loading
\* and saving the file went through; any exception leaves the file as it was.
update_excel_status(book, row_index, status, timestamp, io_ok) ==
  LET status_col    == status_col_of(book.hdr)
      timestamp_col == timestamp_col_of(book.hdr)
      r             == (row_index + 2) - 1
      with_status   == IF status_col # 0
                       THEN [book.rows EXCEPT ![r][status_col] = PyStr(status)]
                       ELSE book.rows
      with_both     == IF timestamp_col # 0
                       THEN [with_status EXCEPT ![r][timestamp_col] = PyStr(timestamp)]
                       ELSE with_status
  IN  IF io_ok THEN [book EXCEPT !.rows = with_both] ELSE book

\* ------------------------------------------------------------------------
\* deploy_windows_vm.py (experimental and scratch)
\* ------------------------------------------------------------------------
\* Build-time switch of experimental/deploy_windows_vm.py.
ALLOW_EXECUTION_WITHOUT_DOIT == FALSE

P_VM_NAME == <<"W","i","n","d","o","w","s","-","V","M","-">>

S_Unknown == <<"U","n","k","n","o","w","n">>

NUM_VCPUS == 4

NUM_CORES_PER_VCPU == 1

MEMORY_SIZE_MIB == 8192

BOOT_DISK_SIZE_GIB == 80

BOOT_DISK_BUS == "SCSI"

MACHINE_TYPE == "PC"

BIOS_TYPE(s) == IF s = "experimental" THEN "LEGACY" ELSE "UEFI"

SECURE_BOOT(s) == s # "experimental"

TPM_ENABLED(s) == s # "experimental"

BOOT_ORDER == <<"DISK", "CDROM", "NETWORK">>

N_Win == <<"W","i","n">>

N_win == <<"w","i","n">>

N_WIN == <<"W","I","N">>

N_Prod == <<"P","r","o","d">>

N_prod == <<"p","r","o","d">>

N_nope == <<"n","o","p","e">>

X_img1 == <<"i","m","g","-","1">>

X_img2 == <<"i","m","g","-","2">>

X_net1 == <<"n","e","t","-","1">>

X_net2 == <<"n","e","t","-","2">>

\* One entry of an inventory listing; a key the entry lacks is None.
Item(name, extId) == [name |-> name, extId |-> extId]

\* item.get(key, default)
item_get(v, default) == IF v = PyNone THEN default ELSE v.s

\* The command lines of the experimental script under test.
Args(do_it, dry_run, image_name, subnet) ==
  [do_it |-> do_it, dry_run |-> dry_run, image_name |-> image_name, subnet |-> subnet]

NoArgs == Args(FALSE, FALSE, PyNone, PyNone)

CommandLines ==
  { NoArgs,
    Args(TRUE,  FALSE, PyNone,        PyNone),
    Args(FALSE, TRUE,  PyNone,        PyNone),
    Args(TRUE,  TRUE,  PyNone,        PyNone),
    Args(TRUE,  FALSE, PyStr(N_Win),  PyStr(N_Prod)),
    Args(TRUE,  TRUE,  PyStr(N_Win),  PyStr(N_Prod)),
    Args(TRUE,  FALSE, PyStr(N_WIN),  PyStr(<<>>)),
    Args(TRUE,  FALSE, PyStr(N_nope), PyNone),
    Args(TRUE,  TRUE,  PyNone,        PyStr(N_nope)) }

\* What the API may answer to the connection test GET .../ahv/config/vms.
ConnectResponses ==
  { NoResponse,
    ApiResponse(200, PyNone, "json", DataDoc(<<>>)),
    ApiResponse(200, PyNone, "empty", EmptyDoc),
    ApiResponse(304, PyNone, "empty", EmptyDoc),
    ApiResponse(401, PyNone, "json", MetaDoc) }

\* What the API may answer to GET .../content/images.
ImageResponses ==
  { NoResponse,
    ApiResponse(500, PyNone, "text", EmptyDoc),
    ApiResponse(200, PyNone, "text", EmptyDoc),
    ApiResponse(200, PyNone, "empty", EmptyDoc),
    ApiResponse(200, PyNone, "json", MetaDoc),
    ApiResponse(200, PyNone, "json", DataDoc(<<>>)),
    ApiResponse(200, PyNone, "json",
      DataDoc(<<Item(PyStr(N_win), PyStr(X_img1)), Item(PyStr(N_Win), PyStr(X_img2))>>)),
    ApiResponse(200, PyNone, "json",
      DataDoc(<<Item(PyNone, PyNone), Item(PyStr(N_win), PyStr(X_img1))>>)) }

\* What the API may answer to GET .../config/subnets.
SubnetResponses ==
  { NoResponse,
    ApiResponse(404, PyNone, "json", MetaDoc),
    ApiResponse(200, PyNone, "json", DataDoc(<<>>)),
    ApiResponse(200, PyNone, "json",
      DataDoc(<<Item(PyStr(N_prod), PyStr(X_net1)), Item(PyStr(N_Prod), PyStr(X_net2))>>)),
    ApiResponse(200, PyNone, "json",
      DataDoc(<<Item(PyStr(N_prod), PyStr(X_net1))>>)) }

\* What the API may answer to the creation POST .../ahv/config/vms.
CreateResponses ==
  { NoResponse,
    ApiResponse(400, PyNone, "json", MetaDoc),
    ApiResponse(500, PyNone, "empty", EmptyDoc),
    ApiResponse(200, PyNone, "json", MetaDoc),
    ApiResponse(201, PyNone, "text", EmptyDoc),
    ApiResponse(202, PyNone, "json", EmptyDoc),
    ApiResponse(202, PyNone, "empty", EmptyDoc),
    ApiResponse(304, PyNone, "empty", EmptyDoc) }

\* What the operator may type at "Select ... by index".
I_q == <<"q">>

I_quit == <<"q","u","i","t">>

I_exit == <<"e","x","i","t">>

I_Quit_padded == <<" ","Q","u","i","t">>

I_0 == <<"0">>

I_1_padded == <<" ","1"," ">>

I_7 == <<"7">>

I_minus1 == <<"-","1">>

I_abc == <<"a","b","c">>

IndexInputs == { I_q, I_Quit_padded, I_0, I_1_padded, I_7, I_minus1, I_abc, <<>> }

\* What the operator may type at "Proceed with VM deployment? (y/N)".
A_y == <<"y">>

A_yes == <<"y","e","s">>

A_YES_padded == <<" ","Y","E","S"," ">>

A_n == <<"n">>

A_yep == <<"y","e","p">>

ConfirmInputs == { A_y, A_YES_padded, A_n, A_yep, <<>> }

\* Faulty variant of make_api_request: raise_for_status() is not called, so only
\* a transport failure or an unreadable body ends the process.
make_api_request_unchecked(r) ==
  IF \/ r.kind = "error"
     \/ r.body = "text"
  THEN [exit |-> TRUE, data |-> EmptyDoc]
  ELSE [exit |-> FALSE, data |-> IF r.body = "empty" THEN EmptyDoc ELSE r.doc]

\* make_api_request: raise_for_status() raises on 4xx and 5xx; a body that is
\* not empty is parsed, and one that is not JSON raises requests' JSONDecodeError.
\* Every RequestException ends the process with sys.exit(1).
make_api_request(r) ==
  IF \/ r.kind = "error"
     \/ (r.status >= 400 /\ r.status < 600)
     \/ r.body = "text"
  THEN [exit |-> TRUE, data |-> EmptyDoc]
  ELSE [exit |-> FALSE, data |-> IF r.body = "empty" THEN EmptyDoc ELSE r.doc]

NoSelection == [found |-> FALSE, name |-> <<>>, ext_id |-> <<>>]

Selection(item) ==
  [found  |-> TRUE,
   name   |-> item_get(item.name, S_Unknown),
   ext_id |-> item_get(item.extId, S_Unknown)]

\* Index of the first TRUE of a sequence of booleans (0: none).
first_true(flags) ==
  IF \E i \in 1..Len(flags) : flags[i]
  THEN CHOOSE i \in 1..Len(flags) : flags[i] /\ \A j \in 1..(i - 1) : ~flags[j]
  ELSE 0

\* Faulty variant of find_by_name: a single pass that takes the first entry whose
\* name matches when case is ignored.
find_by_name_one_pass(doc, wanted) ==
  LET nocase == [i \in 1..Len(doc.data) |->
                  str_lower(item_get(doc.data[i].name, <<>>)) = str_lower(wanted)]
  IN  IF ~doc.has_data \/ doc.data = <<>> THEN NoSelection
      ELSE IF first_true(nocase) # 0 THEN Selection(doc.data[first_true(nocase)])
      ELSE NoSelection

\* The two passes of find_image_by_name / find_network_by_name over the listing.
find_by_name(doc, wanted) ==
  LET exact  == [i \in 1..Len(doc.data) |-> item_get(doc.data[i].name, <<>>) = wanted]
      nocase == [i \in 1..Len(doc.data) |->
                  str_lower(item_get(doc.data[i].name, <<>>)) = str_lower(wanted)]
  IN  IF ~doc.has_data \/ doc.data = <<>> THEN NoSelection
      ELSE IF first_true(exact) # 0 THEN Selection(doc.data[first_true(exact)])
      ELSE IF first_true(nocase) # 0 THEN Selection(doc.data[first_true(nocase)])
      ELSE NoSelection

find_image_by_name(images_data, image_name) == find_by_name(images_data, image_name)

find_network_by_name(networks_data, subnet_name) == find_by_name(networks_data, subnet_name)

\* list_images / list_networks: the entries offered for selection.
list_items(doc) ==
  IF ~doc.has_data \/ doc.data = <<>> THEN <<>>
  ELSE [i \in 1..Len(doc.data) |-> Selection(doc.data[i])]

is_digits(s) == s # <<>> /\ \A i \in 1..Len(s) : \E d \in 1..Len(Digits) : Digits[d] = s[i]

RECURSIVE digits_value(_)
digits_value(s) ==
  IF s = <<>> THEN 0
  ELSE 10 * digits_value(SubSeq(s, 1, Len(s) - 1))
         + ((CHOOSE d \in 1..Len(Digits) : Digits[d] = s[Len(s)]) - 1)

\* int(s) of a stripped str: [ok |-> FALSE] stands for ValueError.
int_parse(s) ==
  IF is_digits(s) THEN [ok |-> TRUE, value |-> digits_value(s)]
  ELSE IF s # <<>> /\ Head(s) \in {"-", "+"} /\ is_digits(Tail(s))
       THEN [ok |-> TRUE,
             value |-> IF Head(s) = "-" THEN 0 - digits_value(Tail(s)) ELSE digits_value(Tail(s))]
  ELSE [ok |-> FALSE, value |-> 0]

\* One round of select_from_list's loop on what the operator typed.
select_from_list(items, typed) ==
  LET choice == str_strip(typed)
  IN  IF str_lower(choice) \in {I_q, I_quit, I_exit}
      THEN [kind |-> "exit", item |-> NoSelection]
      ELSE IF int_parse(choice).ok /\ 0 <= int_parse(choice).value
                                   /\ int_parse(choice).value < Len(items)
      THEN [kind |-> "selected", item |-> items[int_parse(choice).value + 1]]
      ELSE [kind |-> "again", item |-> NoSelection]

\* Faulty variant of is_confirmed: any answer that begins with 'y' is taken for
\* a confirmation.
is_confirmed_by_first_letter(answer) == str_startswith(str_lower(str_strip(answer)), A_y)

\* main, "confirm not in ['y', 'yes']"
is_confirmed(answer) == str_lower(str_strip(answer)) \in {A_y, A_yes}

\* A byte count kept as the factors the source multiplies (the products exceed
\* 32 bits).
Product(factors) == [product |-> factors]

boot_devices ==
  LET known(b) == b \in {"DISK", "CDROM", "NETWORK"}
      kept     == SelectSeq(BOOT_ORDER, known)
  IN  [i \in 1..Len(kept) |-> [bootDeviceType |-> kept[i], bootDeviceOrder |-> i - 1]]

VM_DESCRIPTION == "Windows VM deployed via Python script using Nutanix v4 API"

create_vm_payload(s, vm_name, image, network) ==
  [name                |-> vm_name,
   description         |-> VM_DESCRIPTION,
   numSockets          |-> NUM_VCPUS,
   numCoresPerSocket   |-> NUM_CORES_PER_VCPU,
   memorySizeBytes     |-> Product(<<MEMORY_SIZE_MIB, 1024, 1024>>),
   machineType         |-> MACHINE_TYPE,
   biosType            |-> BIOS_TYPE(s),
   isSecureBootEnabled |-> SECURE_BOOT(s),
   isTpmEnabled        |-> TPM_ENABLED(s),
   bootConfig          |-> [bootDevices |-> boot_devices],
   disks               |-> << [diskAddress |-> [busType |-> BOOT_DISK_BUS, index |-> 0],
                               diskSizeBytes |-> Product(<<BOOT_DISK_SIZE_GIB, 1024, 1024, 1024>>),
                               storageContainer |-> [extId |-> image.ext_id],
                               dataSourceReference |-> [extId |-> image.ext_id]] >>,
   nics                |-> << [networkInfo |-> [subnet |-> [extId |-> network.ext_id]],
                               nicType |-> "NORMAL_NIC"] >>,
   guestOs             |-> [osType |-> "WINDOWS"],
   apcConfig           |-> [isEnabled |-> FALSE]]

NoPayload == [name |-> <<>>]

\* ------------------------------------------------------------------------
\* State
\* ------------------------------------------------------------------------
VARIABLES
  script,        \* which script this process runs
  pc,            \* position of the process in main
  exitCode,      \* the process's exit code (meaningful once pc = "exit")
  varsFile,      \* files/vars.txt
  book,          \* the workbook on disk
  clock,         \* index into Clock of the latest reading of the time
  base_url,      \* main's base_url
  auth_headers,  \* main's auth_headers / headers dict
  resp,          \* the HTTP exchange just completed
  httpLog,       \* every HTTP request this process issued so far
  uuidCount,     \* uuid.uuid4() calls so far
  df,            \* bulk update: main's DataFrame, read once
  index,         \* bulk update: loop variable of df.iterrows()
  loc,           \* bulk update: the locals of the current iteration
  markArgs,      \* bulk update: arguments of the update_excel_status call being made
  rowState,      \* bulk update: per row, how far its processing got
  saved,         \* bulk update: per row, what its update_excel_status call printed
  args,          \* provisioning: the parsed command line
  VM_NAME,       \* provisioning: the module constant, fixed when the process starts
  listed,        \* provisioning: the list offered for interactive selection
  selected_image,
  selected_network,
  vm_payload,    \* provisioning: the payload create_vm_payload returned
  recordFile,    \* provisioning: the deployment record file
  prior,         \* provisioning: what the previous invocation built
  confirmInput   \* provisioning: what input() returned at the confirmation prompt

common == <<script, pc, exitCode, varsFile, book, clock, base_url, auth_headers, resp,
            httpLog, uuidCount>>

updVars == <<df, index, loc, markArgs, rowState, saved>>

depVars == <<args, VM_NAME, listed, selected_image, selected_network, vm_payload,
             recordFile, prior, confirmInput>>

vars == <<common, updVars, depVars>>

NoLocals ==
  [vm_extid |-> <<>>, category_uuids |-> <<>>, rest_uuid |-> 0, vm_etag |-> PyNone,
   payload |-> [categories |-> <<>>], post_headers |-> EmptyDict]

NoMark == [row_index |-> 0, status |-> <<>>, timestamp |-> <<>>, pending |-> FALSE]

NoHeaders == EmptyDict

NoBook == [exists |-> FALSE, hdr |-> <<>>, rows |-> <<>>]

NoPrior ==
  [built |-> FALSE, dry_run |-> FALSE, image |-> NoSelection, network |-> NoSelection,
   payload |-> NoPayload]

Scripts == {"update", "experimental", "scratch"}

\* VM_NAME = "Windows-VM-" + datetime.now().strftime("%Y%m%d-%H%M%S"), at import.
vm_name_at(t) == P_VM_NAME \o Clock[t].ymd_hms

\* The state of a process of script s that has just been started.
Started(s) ==
  /\ pc = "start"
  /\ exitCode = 0
  /\ base_url = <<>>
  /\ auth_headers = NoHeaders
  /\ resp = NoExchange
  /\ httpLog = <<>>
  /\ uuidCount = 0
  /\ df = NoFrame
  /\ index = 0
  /\ loc = NoLocals
  /\ markArgs = NoMark
  /\ rowState = [i \in 1..Len(book.rows) |-> "PENDING"]
  /\ saved = [i \in 1..Len(book.rows) |-> "no call"]
  /\ args \in (IF s = "experimental" THEN CommandLines ELSE { NoArgs })
  /\ VM_NAME = (IF s = "update" THEN <<>> ELSE vm_name_at(clock))
  /\ listed = <<>>
  /\ selected_image = NoSelection
  /\ selected_network = NoSelection
  /\ vm_payload = NoPayload
  /\ recordFile = "none"
  /\ confirmInput = PyNone

Init ==
  /\ script \in Scripts
  /\ varsFile \in VarsFiles
  /\ book \in (IF script = "update" THEN Workbooks ELSE { NoBook })
  /\ clock = 1
  /\ prior = NoPrior
  /\ Started(script)

\* sys.exit(code), or the end of main with code 0.
Exit(code) == pc' = "exit" /\ exitCode' = code

\* An entry of httpLog: the request as sent, the row of the frame it was sent for
\* (bulk update) and the ETag header of the response it got (None: no such header,
\* or no response).
Request(method, target, headers, body, row, reply) ==
  [method |-> method, target |-> target, headers |-> headers, json |-> body, row |-> row,
   reply_etag |-> reply.etag]

\* ------------------------------------------------------------------------
\* update_categories_for_vm.py: main
\* ------------------------------------------------------------------------
\* Lines 180-212: configuration, credentials, the workbook.
UpdateStart ==
  /\ script = "update" /\ pc = "start"
  /\ \E c \in { update_load_config(varsFile) } :
         IF c.exit
         THEN /\ Exit(1)
              /\ UNCHANGED <<base_url, auth_headers, df>>
         ELSE /\ base_url' = c.base_url
              /\ auth_headers' = create_auth_header(c.username, c.password)
              /\ IF ~book.exists
                 THEN Exit(1) /\ UNCHANGED df
                 ELSE /\ df' = read_excel(book)
                      /\ pc' = "loop"
                      /\ UNCHANGED exitCode
  /\ UNCHANGED <<script, varsFile, book, clock, resp, httpLog, uuidCount>>
  /\ UNCHANGED <<index, loc, markArgs, rowState, saved>>
  /\ UNCHANGED depVars

\* The loop's `continue`, and the end of an iteration.
\* Faulty variant of NextRow: the loop does not move on to the next row.
NextRow_staying == index' = index /\ pc' = "loop" /\ loc' = NoLocals

NextRow == index' = index + 1 /\ pc' = "loop" /\ loc' = NoLocals

\* Lines 215-244 and 286-287: one row is taken from the frame and examined.
ExamineRow ==
  /\ script = "update" /\ pc = "loop" /\ index < Len(df.data)
  /\ \E match_status \in { row_field(df, index, H_Match) } :
     \E vm_name \in { row_field(df, index, H_VMName) } :
     \E vm_extid \in { row_field(df, index, H_VMextId) } :
     \E category_uuids_str \in { row_field(df, index, H_Cats) } :
     \E category_uuids \in { parse_category_uuids(category_uuids_str) } :
         IF ~is_eligible(match_status)
         THEN /\ NextRow
              /\ rowState' = [rowState EXCEPT ![index + 1] = "SKIPPED"]
              /\ UNCHANGED uuidCount
         ELSE IF ~(vm_name # <<>> /\ vm_extid # <<>> /\ category_uuids_str # <<>>)
         THEN /\ NextRow
              /\ rowState' = [rowState EXCEPT ![index + 1] = "MISSING_DATA"]
              /\ UNCHANGED uuidCount
         ELSE IF category_uuids = <<>>
         THEN /\ NextRow
              /\ rowState' = [rowState EXCEPT ![index + 1] = "NO_CATEGORIES"]
              /\ UNCHANGED uuidCount
         ELSE /\ uuidCount' = uuidCount + 1
              /\ loc' = [NoLocals EXCEPT !.vm_extid = vm_extid,
                                         !.category_uuids = category_uuids,
                                         !.rest_uuid = uuidCount + 1]
              /\ rowState' = [rowState EXCEPT ![index + 1] = "ELIGIBLE"]
              /\ pc' = "get"
              /\ UNCHANGED index
  /\ UNCHANGED <<script, exitCode, varsFile, book, clock, base_url, auth_headers, resp,
                 httpLog>>
  /\ UNCHANGED <<df, markArgs, saved>>
  /\ UNCHANGED depVars

\* Lines 248 and 74-79: the GET is issued and the exchange ends.
GetRequest ==
  /\ script = "update" /\ pc = "get"
  /\ \E r \in GetResponses :
       /\ resp' = r
       /\ httpLog' = Append(httpLog,
                       Request("GET", [path |-> "vms", extId |-> loc.vm_extid],
                               auth_headers, [categories |-> <<>>], index, r))
  /\ rowState' = [rowState EXCEPT ![index + 1] = "READ"]
  /\ pc' = "get_done"
  /\ UNCHANGED <<script, exitCode, varsFile, book, clock, base_url, auth_headers, uuidCount>>
  /\ UNCHANGED <<df, index, loc, markArgs, saved>>
  /\ UNCHANGED depVars

\* Faulty variant of post_headers_for: If-Match carries a token kept from an
\* earlier exchange instead of the one just read.
post_headers_for_kept_token(headers, vm_etag, rest_uuid) ==
  [h \in (DOMAIN headers) \cup {"If-Match", "NTNX-Request-Id", "Content-Type"} |->
     IF h = "If-Match" THEN [value |-> E_1]
     ELSE IF h = "NTNX-Request-Id" THEN [uuid |-> rest_uuid]
     ELSE IF h = "Content-Type" THEN [value |-> "application/json"]
     ELSE headers[h]]

\* The headers of the POST: a copy of auth_headers with three entries set.
post_headers_for(headers, vm_etag, rest_uuid) ==
  [h \in (DOMAIN headers) \cup {"If-Match", "NTNX-Request-Id", "Content-Type"} |->
     IF h = "If-Match" THEN [value |-> vm_etag]
     ELSE IF h = "NTNX-Request-Id" THEN [uuid |-> rest_uuid]
     ELSE IF h = "Content-Type" THEN [value |-> "application/json"]
     ELSE headers[h]]

\* Faulty variant of HandleGet: a GET that brings no ETag is issued again.
HandleGet_retrying ==
  /\ script = "update" /\ pc = "get_done"
  /\ LET got == make_get_request(resp)
     IN  IF ~Truthy(got.vm_etag)
         THEN /\ pc' = "get"
              /\ rowState' = [rowState EXCEPT ![index + 1] = "ELIGIBLE"]
              /\ UNCHANGED <<index, loc>>
         ELSE /\ loc' = [loc EXCEPT
                           !.vm_etag = got.vm_etag,
                           !.payload = build_categories_payload(loc.category_uuids),
                           !.post_headers =
                              post_headers_for(auth_headers, got.vm_etag.s, loc.rest_uuid)]
              /\ rowState' = [rowState EXCEPT ![index + 1] = "READ_OK"]
              /\ pc' = "post"
              /\ UNCHANGED index
  /\ resp' = NoExchange
  /\ UNCHANGED <<script, exitCode, varsFile, book, clock, base_url, auth_headers, httpLog,
                 uuidCount>>
  /\ UNCHANGED <<df, markArgs, saved>>
  /\ UNCHANGED depVars

\* Faulty variant of HandleGet: a GET that brings no ETag ends the whole run
\* with exit code 1.
HandleGet_aborting ==
  /\ script = "update" /\ pc = "get_done"
  /\ LET got == make_get_request(resp)
     IN  IF ~Truthy(got.vm_etag)
         THEN /\ Exit(1)
              /\ rowState' = [rowState EXCEPT ![index + 1] = "READ_FAILED"]
              /\ UNCHANGED <<index, loc>>
         ELSE /\ loc' = [loc EXCEPT
                           !.vm_etag = got.vm_etag,
                           !.payload = build_categories_payload(loc.category_uuids),
                           !.post_headers =
                              post_headers_for(auth_headers, got.vm_etag.s, loc.rest_uuid)]
              /\ rowState' = [rowState EXCEPT ![index + 1] = "READ_OK"]
              /\ pc' = "post"
              /\ UNCHANGED <<index, exitCode>>
  /\ resp' = NoExchange
  /\ UNCHANGED <<script, varsFile, book, clock, base_url, auth_headers, httpLog, uuidCount>>
  /\ UNCHANGED <<df, markArgs, saved>>
  /\ UNCHANGED depVars

\* Faulty variant of HandleGet: a row left without an ETag is stamped FAILED (N/A)
\* in the workbook before the loop continues.
HandleGet_stamping ==
  /\ script = "update" /\ pc = "get_done"
  /\ LET got == make_get_request(resp)
     IN  IF ~Truthy(got.vm_etag)
         THEN /\ NextRow
              /\ rowState' = [rowState EXCEPT ![index + 1] = "READ_FAILED"]
              /\ book' = update_excel_status(book, index, post_outcome(NoResponse),
                                             Clock[clock].dmy_hm, TRUE)
         ELSE /\ loc' = [loc EXCEPT
                           !.vm_etag = got.vm_etag,
                           !.payload = build_categories_payload(loc.category_uuids),
                           !.post_headers =
                              post_headers_for(auth_headers, got.vm_etag.s, loc.rest_uuid)]
              /\ rowState' = [rowState EXCEPT ![index + 1] = "READ_OK"]
              /\ pc' = "post"
              /\ UNCHANGED <<index, book>>
  /\ resp' = NoExchange
  /\ UNCHANGED <<script, exitCode, varsFile, clock, base_url, auth_headers, httpLog,
                 uuidCount>>
  /\ UNCHANGED <<df, markArgs, saved>>
  /\ UNCHANGED depVars

\* Faulty variant of HandleGet: post_headers is auth_headers itself, not a copy
\* of it, so that the three entries are set on the shared headers.
HandleGet_sharing ==
  /\ script = "update" /\ pc = "get_done"
  /\ LET got == make_get_request(resp)
     IN  IF ~Truthy(got.vm_etag)
         THEN /\ NextRow
              /\ rowState' = [rowState EXCEPT ![index + 1] = "READ_FAILED"]
              /\ UNCHANGED auth_headers
         ELSE /\ loc' = [loc EXCEPT
                           !.vm_etag = got.vm_etag,
                           !.payload = build_categories_payload(loc.category_uuids),
                           !.post_headers =
                              post_headers_for(auth_headers, got.vm_etag.s, loc.rest_uuid)]
              /\ auth_headers' = post_headers_for(auth_headers, got.vm_etag.s, loc.rest_uuid)
              /\ rowState' = [rowState EXCEPT ![index + 1] = "READ_OK"]
              /\ pc' = "post"
              /\ UNCHANGED index
  /\ resp' = NoExchange
  /\ UNCHANGED <<script, exitCode, varsFile, book, clock, base_url, httpLog, uuidCount>>
  /\ UNCHANGED <<df, markArgs, saved>>
  /\ UNCHANGED depVars

\* Lines 81-93 and 250-263: the ETag is taken; without one the row is left.
HandleGet ==
  /\ script = "update" /\ pc = "get_done"
  /\ LET got == make_get_request(resp)
     IN  IF ~Truthy(got.vm_etag)
         THEN /\ NextRow
              /\ rowState' = [rowState EXCEPT ![index + 1] = "READ_FAILED"]
         ELSE /\ loc' = [loc EXCEPT
                           !.vm_etag = got.vm_etag,
                           !.payload = build_categories_payload(loc.category_uuids),
                           !.post_headers =
                              post_headers_for(auth_headers, got.vm_etag.s, loc.rest_uuid)]
              /\ rowState' = [rowState EXCEPT ![index + 1] = "READ_OK"]
              /\ pc' = "post"
              /\ UNCHANGED index
  /\ resp' = NoExchange
  /\ UNCHANGED <<script, exitCode, varsFile, book, clock, base_url, auth_headers, httpLog,
                 uuidCount>>
  /\ UNCHANGED <<df, markArgs, saved>>
  /\ UNCHANGED depVars

\* Lines 267 and 116-122: the POST is issued and the exchange ends.
PostRequest ==
  /\ script = "update" /\ pc = "post"
  /\ \E r \in PostResponses :
       /\ resp' = r
       /\ httpLog' = Append(httpLog,
                       Request("POST",
                               [path |-> "associate-categories", extId |-> loc.vm_extid],
                               loc.post_headers, loc.payload, index, r))
  /\ rowState' = [rowState EXCEPT ![index + 1] = "WRITE"]
  /\ pc' = "post_done"
  /\ UNCHANGED <<script, exitCode, varsFile, book, clock, base_url, auth_headers, uuidCount>>
  /\ UNCHANGED <<df, index, loc, markArgs, saved>>
  /\ UNCHANGED depVars

\* Lines 124-141 and 269-284: the outcome and the time it is stamped with.
HandlePost ==
  /\ script = "update" /\ pc = "post_done"
  /\ \E t \in clock..Len(Clock) :
       /\ clock' = t
       /\ markArgs' = [row_index |-> index,
                       status    |-> post_outcome(make_post_request(resp)),
                       timestamp |-> Clock[t].dmy_hm,
                       pending   |-> TRUE]
  /\ rowState' = [rowState EXCEPT ![index + 1] =
                    IF post_outcome(make_post_request(resp)) = S_ACCEPTED
                    THEN "ACCEPTED" ELSE "FAILED"]
  /\ pc' = "mark"
  /\ UNCHANGED <<script, exitCode, varsFile, book, base_url, auth_headers, resp, httpLog,
                 uuidCount>>
  /\ UNCHANGED <<df, index, loc, saved>>
  /\ UNCHANGED depVars

\* Lines 276/284 and 143-176: update_excel_status, then the next row.
Mark ==
  /\ script = "update" /\ pc = "mark"
  /\ \E io_ok \in BOOLEAN :
       /\ book' = update_excel_status(book, markArgs.row_index, markArgs.status,
                                      markArgs.timestamp, io_ok)
       /\ saved' = [saved EXCEPT ![markArgs.row_index + 1] =
                      IF io_ok THEN "updated" ELSE "error"]
  /\ NextRow
  /\ resp' = NoExchange
  /\ markArgs' = NoMark
  /\ UNCHANGED <<script, exitCode, varsFile, clock, base_url, auth_headers, httpLog,
                 uuidCount>>
  /\ UNCHANGED <<df, rowState>>
  /\ UNCHANGED depVars

\* Lines 289-290: the frame is exhausted.
UpdateDone ==
  /\ script = "update" /\ pc = "loop" /\ index = Len(df.data)
  /\ Exit(0)
  /\ UNCHANGED <<script, varsFile, book, clock, base_url, auth_headers, resp, httpLog,
                 uuidCount>>
  /\ UNCHANGED updVars
  /\ UNCHANGED depVars

\* ------------------------------------------------------------------------
\* deploy_windows_vm.py: main
\* ------------------------------------------------------------------------
IsDeploy == script \in {"experimental", "scratch"}

deploy_headers(config) ==
  LET auth == create_auth_header(config[K_username], config[K_password])
  IN  [h \in (DOMAIN auth) \cup {"Content-Type", "Accept"} |->
        IF h \in {"Content-Type", "Accept"} THEN [value |-> "application/json"] ELSE auth[h]]

\* Faulty variant of DeployStart: --dry-run alone passes the safety check.
DeployStart_dry_run_passes ==
  /\ IsDeploy /\ pc = "start"
  /\ IF script = "experimental" /\ ~args.do_it /\ ~args.dry_run
        /\ ~ALLOW_EXECUTION_WITHOUT_DOIT
     THEN Exit(1) /\ UNCHANGED <<base_url, auth_headers>>
     ELSE LET r == deploy_read_vars_file(varsFile)
          IN  IF r.exit
              THEN Exit(1) /\ UNCHANGED <<base_url, auth_headers>>
              ELSE /\ base_url' = r.config[K_baseUrl]
                   /\ auth_headers' = deploy_headers(r.config)
                   /\ pc' = "connect"
                   /\ UNCHANGED exitCode
  /\ UNCHANGED <<script, varsFile, book, clock, resp, httpLog, uuidCount>>
  /\ UNCHANGED updVars
  /\ UNCHANGED depVars

\* experimental lines 506-541, scratch lines 314-325: the safety check (flags
\* script only), then the configuration and the headers.
DeployStart ==
  /\ IsDeploy /\ pc = "start"
  /\ IF script = "experimental" /\ ~args.do_it /\ ~ALLOW_EXECUTION_WITHOUT_DOIT
     THEN Exit(1) /\ UNCHANGED <<base_url, auth_headers>>
     ELSE LET r == deploy_read_vars_file(varsFile)
          IN  IF r.exit
              THEN Exit(1) /\ UNCHANGED <<base_url, auth_headers>>
              ELSE /\ base_url' = r.config[K_baseUrl]
                   /\ auth_headers' = deploy_headers(r.config)
                   /\ pc' = "connect"
                   /\ UNCHANGED exitCode
  /\ UNCHANGED <<script, varsFile, book, clock, resp, httpLog, uuidCount>>
  /\ UNCHANGED updVars
  /\ UNCHANGED depVars

ApiGet(path, r) ==
  httpLog' = Append(httpLog,
               Request("GET", [path |-> path, extId |-> <<>>], auth_headers, NoPayload, 0, r))

\* experimental lines 545-552, scratch lines 329-336: the connection test.
Connect ==
  /\ IsDeploy /\ pc = "connect"
  /\ \E r \in ConnectResponses :
       /\ resp' = r
       /\ ApiGet("vms", r)
       /\ IF make_api_request(r).exit THEN Exit(1) ELSE pc' = "image" /\ UNCHANGED exitCode
  /\ UNCHANGED <<script, varsFile, book, clock, base_url, auth_headers, uuidCount>>
  /\ UNCHANGED updVars
  /\ UNCHANGED depVars

ImageByName == script = "experimental" /\ Truthy(args.image_name)

SubnetByName == script = "experimental" /\ Truthy(args.subnet)

\* Faulty variant of FindImage: when the named image is not in the inventory the
\* images are offered for interactive selection.
FindImage_falling_back ==
  /\ IsDeploy /\ pc = "image" /\ ImageByName
  /\ \E r \in ImageResponses :
       /\ resp' = r
       /\ ApiGet("images", r)
       /\ LET a   == make_api_request(r)
              sel == find_image_by_name(a.data, args.image_name.s)
          IN  IF a.exit \/ list_items(a.data) = <<>>
              THEN Exit(1) /\ UNCHANGED <<selected_image, listed>>
              ELSE IF ~sel.found
              THEN /\ listed' = list_items(a.data)
                   /\ pc' = "pick_image"
                   /\ UNCHANGED <<exitCode, selected_image>>
              ELSE /\ selected_image' = sel
                   /\ pc' = "network"
                   /\ UNCHANGED <<exitCode, listed>>
  /\ UNCHANGED <<script, varsFile, book, clock, base_url, auth_headers, uuidCount>>
  /\ UNCHANGED updVars
  /\ UNCHANGED <<args, VM_NAME, selected_network, vm_payload, recordFile, prior, confirmInput>>

\* experimental lines 556-561: --image-name.
FindImage ==
  /\ IsDeploy /\ pc = "image" /\ ImageByName
  /\ \E r \in ImageResponses :
       /\ resp' = r
       /\ ApiGet("images", r)
       /\ LET a   == make_api_request(r)
              sel == find_image_by_name(a.data, args.image_name.s)
          IN  IF a.exit \/ ~sel.found
              THEN Exit(1) /\ UNCHANGED selected_image
              ELSE selected_image' = sel /\ pc' = "network" /\ UNCHANGED exitCode
  /\ UNCHANGED <<script, varsFile, book, clock, base_url, auth_headers, uuidCount>>
  /\ UNCHANGED updVars
  /\ UNCHANGED <<args, VM_NAME, listed, selected_network, vm_payload, recordFile,
                 prior, confirmInput>>

\* experimental lines 564-567, scratch lines 339-342: the images are listed.
ListImages ==
  /\ IsDeploy /\ pc = "image" /\ ~ImageByName
  /\ \E r \in ImageResponses :
       /\ resp' = r
       /\ ApiGet("images", r)
       /\ LET a == make_api_request(r)
          IN  IF a.exit \/ list_items(a.data) = <<>>
              THEN Exit(1) /\ UNCHANGED listed
              ELSE listed' = list_items(a.data) /\ pc' = "pick_image" /\ UNCHANGED exitCode
  /\ UNCHANGED <<script, varsFile, book, clock, base_url, auth_headers, uuidCount>>
  /\ UNCHANGED updVars
  /\ UNCHANGED <<args, VM_NAME, selected_image, selected_network, vm_payload, recordFile,
                 prior, confirmInput>>

\* experimental lines 569-571, scratch lines 344-346: one round of the prompt.
PickImage ==
  /\ IsDeploy /\ pc = "pick_image"
  /\ \E typed \in IndexInputs :
       LET s == select_from_list(listed, typed)
       IN  IF s.kind = "exit"
           THEN Exit(0) /\ UNCHANGED <<selected_image, listed>>
           ELSE IF s.kind = "selected"
           THEN /\ selected_image' = s.item
                /\ listed' = <<>>
                /\ pc' = "network"
                /\ UNCHANGED exitCode
           ELSE UNCHANGED <<pc, exitCode, selected_image, listed>>
  /\ UNCHANGED <<script, varsFile, book, clock, base_url, auth_headers, resp, httpLog,
                 uuidCount>>
  /\ UNCHANGED updVars
  /\ UNCHANGED <<args, VM_NAME, selected_network, vm_payload, recordFile, prior, confirmInput>>

\* experimental lines 575-580: --subnet.
FindNetwork ==
  /\ IsDeploy /\ pc = "network" /\ SubnetByName
  /\ \E r \in SubnetResponses :
       /\ resp' = r
       /\ ApiGet("subnets", r)
       /\ LET a   == make_api_request(r)
              sel == find_network_by_name(a.data, args.subnet.s)
          IN  IF a.exit \/ ~sel.found
              THEN Exit(1) /\ UNCHANGED selected_network
              ELSE selected_network' = sel /\ pc' = "summary" /\ UNCHANGED exitCode
  /\ UNCHANGED <<script, varsFile, book, clock, base_url, auth_headers, uuidCount>>
  /\ UNCHANGED updVars
  /\ UNCHANGED <<args, VM_NAME, listed, selected_image, vm_payload, recordFile,
                 prior, confirmInput>>

\* experimental lines 583-586, scratch lines 349-352: the networks are listed.
ListNetworks ==
  /\ IsDeploy /\ pc = "network" /\ ~SubnetByName
  /\ \E r \in SubnetResponses :
       /\ resp' = r
       /\ ApiGet("subnets", r)
       /\ LET a == make_api_request(r)
          IN  IF a.exit \/ list_items(a.data) = <<>>
              THEN Exit(1) /\ UNCHANGED listed
              ELSE listed' = list_items(a.data) /\ pc' = "pick_network" /\ UNCHANGED exitCode
  /\ UNCHANGED <<script, varsFile, book, clock, base_url, auth_headers, uuidCount>>
  /\ UNCHANGED updVars
  /\ UNCHANGED <<args, VM_NAME, selected_image, selected_network, vm_payload, recordFile,
                 prior, confirmInput>>

\* experimental lines 588-590, scratch lines 354-356: one round of the prompt.
PickNetwork ==
  /\ IsDeploy /\ pc = "pick_network"
  /\ \E typed \in IndexInputs :
       LET s == select_from_list(listed, typed)
       IN  IF s.kind = "exit"
           THEN Exit(0) /\ UNCHANGED <<selected_network, listed>>
           ELSE IF s.kind = "selected"
           THEN /\ selected_network' = s.item
                /\ listed' = <<>>
                /\ pc' = "summary"
                /\ UNCHANGED exitCode
           ELSE UNCHANGED <<pc, exitCode, selected_network, listed>>
  /\ UNCHANGED <<script, varsFile, book, clock, base_url, auth_headers, resp, httpLog,
                 uuidCount>>
  /\ UNCHANGED updVars
  /\ UNCHANGED <<args, VM_NAME, selected_image, vm_payload, recordFile, prior, confirmInput>>

IsDryRun == script = "experimental" /\ args.dry_run

\* Faulty variant of DryRun: the payload it built is sent before the process ends.
DryRun_posting ==
  /\ IsDeploy /\ pc = "summary" /\ IsDryRun
  /\ vm_payload' = create_vm_payload(script, VM_NAME, selected_image, selected_network)
  /\ uuidCount' = uuidCount + 1
  /\ \E r \in CreateResponses :
       /\ resp' = r
       /\ httpLog' = Append(httpLog,
                       Request("POST", [path |-> "vms", extId |-> <<>>], auth_headers,
                               vm_payload', 0, r))
  /\ Exit(0)
  /\ UNCHANGED <<script, varsFile, book, clock, base_url, auth_headers>>
  /\ UNCHANGED updVars
  /\ UNCHANGED <<args, VM_NAME, listed, selected_image, selected_network, recordFile,
                 prior, confirmInput>>

\* experimental lines 601-614: the dry run builds the payload, prints it and ends.
DryRun ==
  /\ IsDeploy /\ pc = "summary" /\ IsDryRun
  /\ vm_payload' = create_vm_payload(script, VM_NAME, selected_image, selected_network)
  /\ uuidCount' = uuidCount + 1
  /\ Exit(0)
  /\ UNCHANGED <<script, varsFile, book, clock, base_url, auth_headers, resp, httpLog>>
  /\ UNCHANGED updVars
  /\ UNCHANGED <<args, VM_NAME, listed, selected_image, selected_network, recordFile,
                 prior, confirmInput>>

\* experimental lines 616-622, scratch lines 367-373: the confirmation prompt.
Confirm ==
  /\ IsDeploy /\ pc = "summary" /\ ~IsDryRun
  /\ \E answer \in ConfirmInputs :
       /\ confirmInput' = PyStr(answer)
       /\ IF ~is_confirmed(answer)
          THEN Exit(0) /\ UNCHANGED <<vm_payload, uuidCount>>
          ELSE /\ vm_payload' =
                    create_vm_payload(script, VM_NAME, selected_image, selected_network)
               /\ uuidCount' = uuidCount + 1
               /\ pc' = "deploy"
               /\ UNCHANGED exitCode
  /\ UNCHANGED <<script, varsFile, book, clock, base_url, auth_headers, resp, httpLog>>
  /\ UNCHANGED updVars
  /\ UNCHANGED <<args, VM_NAME, listed, selected_image, selected_network, recordFile, prior>>

\* experimental lines 625-663 and 430-453, scratch lines 376-414 and 287-310:
\* the creation POST, the deployment record, the end of main.
DeployVm ==
  /\ IsDeploy /\ pc = "deploy"
  /\ \E r \in CreateResponses :
       /\ resp' = r
       /\ httpLog' = Append(httpLog,
                       Request("POST", [path |-> "vms", extId |-> <<>>], auth_headers,
                               vm_payload, 0, r))
       /\ LET a == make_api_request(r)
          IN  IF a.exit \/ ~a.data.truthy
              THEN Exit(1) /\ UNCHANGED recordFile
              ELSE /\ \E io_ok \in BOOLEAN :
                        recordFile' = IF io_ok THEN "written" ELSE "failed"
                   /\ Exit(0)
  /\ UNCHANGED <<script, varsFile, book, clock, base_url, auth_headers, uuidCount>>
  /\ UNCHANGED updVars
  /\ UNCHANGED <<args, VM_NAME, listed, selected_image, selected_network, vm_payload,
                 prior, confirmInput>>

\* After a dry run that printed its payload, the operator does what the script's
\* last line says ("To actually deploy the VM, run with --do-it (without
\* --dry-run)"): the same command line without --dry-run, now or later, against
\* the same files.  It is a new process, which knows nothing of the one before;
\* what that one built is kept in prior.
Rerun ==
  /\ script = "experimental" /\ pc = "exit" /\ args.dry_run /\ vm_payload # NoPayload
  /\ prior' = [built |-> TRUE, dry_run |-> args.dry_run, image |-> selected_image,
               network |-> selected_network, payload |-> vm_payload]
  /\ UNCHANGED <<script, varsFile, book>>
  /\ \E t \in clock..Len(Clock) : clock' = t
  /\ pc' = "start"
  /\ exitCode' = 0
  /\ base_url' = <<>>
  /\ auth_headers' = NoHeaders
  /\ resp' = NoExchange
  /\ httpLog' = <<>>
  /\ uuidCount' = 0
  /\ UNCHANGED updVars
  /\ args' = [args EXCEPT !.do_it = TRUE, !.dry_run = FALSE]
  /\ VM_NAME' = vm_name_at(clock')
  /\ listed' = <<>>
  /\ selected_image' = NoSelection
  /\ selected_network' = NoSelection
  /\ vm_payload' = NoPayload
  /\ recordFile' = "none"
  /\ confirmInput' = PyNone

Next ==
  \/ UpdateStart
  \/ ExamineRow
  \/ GetRequest
  \/ HandleGet
  \/ PostRequest
  \/ HandlePost
  \/ Mark
  \/ UpdateDone
  \/ DeployStart
  \/ Connect
  \/ FindImage
  \/ ListImages
  \/ PickImage
  \/ FindNetwork
  \/ ListNetworks
  \/ PickNetwork
  \/ DryRun
  \/ Confirm
  \/ DeployVm
  \/ Rerun

Spec == Init /\ [][Next]_vars

\* The loop of the bulk update (lines 214-290) belongs to one sequential
\* process: as long as a statement of the loop can be executed it is executed,
\* every HTTP call returning a response or failing within its timeout (lines 71
\* and 116: timeout=30).
FairSpec ==
  /\ Init
  /\ [][Next]_vars
  /\ WF_vars(ExamineRow \/ GetRequest \/ HandleGet \/ PostRequest \/ HandlePost
                \/ Mark \/ UpdateDone)

\* ========================================================================
\* Properties of update_categories_for_vm.py
\* ========================================================================
\* The requests of the bulk update that were issued for the row at position i
\* (0-based) of the frame.
requests_for(i) == { k \in 1..Len(httpLog) : script = "update" /\ httpLog[k].row = i }

\* The value of the match cell of the row at position i, as read from the sheet.
match_value(i) == row_get(df, i, H_Match, PyStr(<<>>))

\* The match value as line 217 and line 219 normalise it: str(), strip(), upper().
match_normalised(i) == str_upper(str_strip(py_str(match_value(i))))

\* The row at position i of the frame is, in the workbook, what it was when the
\* frame was read.
row_untouched(i) == read_excel(book).data[i + 1] = df.data[i + 1]

\* C1 as stated: no HTTP call (GET or POST) is ever made for a row whose match
\* value is not exactly, case-sensitively, 'OK'.
C1_CallsOnlyForExactOK ==
  script = "update" =>
    \A k \in 1..Len(httpLog) : match_value(httpLog[k].row) = PyStr(S_OK)

\* C1 amended: no HTTP call (GET or POST) is ever made for a row whose match
\* value, with surrounding whitespace removed and upper-cased, is not 'OK'.
C1_CallsOnlyForNormalisedOK ==
  script = "update" =>
    \A k \in 1..Len(httpLog) : match_normalised(httpLog[k].row) = S_OK

\* C1 witness: the run ended, a row whose match value is not OK was passed over
\* without any request, and requests were issued for another row.
C1_Witness ==
  /\ script = "update" /\ pc = "exit"
  /\ \E i \in 0..(Len(df.data) - 1) :
       /\ match_normalised(i) # S_OK
       /\ rowState[i + 1] = "SKIPPED"
       /\ requests_for(i) = {}
  /\ httpLog # <<>>

\* C2 as stated: when the POST got an HTTP response whose status is not 202 the
\* row's outcome is FAILED with that status code in it; FAILED (N/A) is the
\* outcome only when no response was obtained.
C2_FailedCarriesStatusCode ==
  (script = "update" /\ pc = "mark") =>
    /\ (resp.kind = "response" /\ resp.status # 202) =>
         markArgs.status = S_FAILED_open \o int_str(resp.status) \o <<")">>
    /\ markArgs.status = S_FAILED_open \o S_NA \o <<")">> => resp.kind = "error"

\* C3 as stated: a row whose GET yields no concurrency token (transport error,
\* error status, or a response without ETag) is marked FAILED in the sheet.
C3_NoTokenRowMarkedFailed ==
  script = "update" =>
    \A i \in 0..(Len(df.data) - 1) :
      (rowState[i + 1] = "READ_FAILED" /\ status_col_of(book.hdr) # 0) =>
        LET cell == book.rows[i + 1][status_col_of(book.hdr)]
        IN  cell # PyNone /\ str_startswith(cell.s, S_FAILED_open)

\* C3 amended: a row whose GET yields no concurrency token is left: no POST is
\* issued for it and nothing is written to its row of the sheet.
C3_NoTokenRowLeftAlone ==
  script = "update" =>
    \A i \in 0..(Len(df.data) - 1) :
      rowState[i + 1] = "READ_FAILED" =>
        /\ row_untouched(i)
        /\ \A k \in requests_for(i) : httpLog[k].method = "GET"

\* C3 witness: the run ended with a row that was left after its GET, in a sheet
\* that has a status column, and with another row that went through.
C3_Witness ==
  /\ script = "update" /\ pc = "exit"
  /\ status_col_of(book.hdr) # 0
  /\ \E i, j \in 0..(Len(df.data) - 1) :
       /\ rowState[i + 1] = "READ_FAILED"
       /\ requests_for(i) # {}
       /\ rowState[j + 1] = "ACCEPTED"

\* C4: every POST of the bulk update comes directly after a GET for the same
\* row whose response carried a non-empty ETag, and sends that ETag as If-Match;
\* a row whose GET gave no ETag, an empty one, or failed, never has a POST.
C4_PostOnlyAfterGetWithETag ==
  script = "update" =>
    \A k \in 1..Len(httpLog) :
      httpLog[k].method = "POST" =>
        /\ k > 1
        /\ httpLog[k - 1].method = "GET"
        /\ httpLog[k - 1].row = httpLog[k].row
        /\ httpLog[k - 1].reply_etag.t = "str"
        /\ httpLog[k - 1].reply_etag.s # <<>>
        /\ httpLog[k].headers["If-Match"].value = httpLog[k - 1].reply_etag.s

\* C4 witness: one row's GET was answered with an empty ETag header and no POST
\* followed for it, while another row's GET brought an ETag and was followed by
\* a POST.
C4_Witness ==
  /\ script = "update"
  /\ \E g \in 1..Len(httpLog) :
       /\ httpLog[g].method = "GET"
       /\ httpLog[g].reply_etag = PyStr(<<>>)
       /\ rowState[httpLog[g].row + 1] = "READ_FAILED"
  /\ \E k \in 1..Len(httpLog) : httpLog[k].method = "POST"

\* C5: the outcome of a row is ACCEPTED exactly when its POST got a response
\* with status 202; any other status, and no response at all, give FAILED.  A
\* status cell this run wrote holds ACCEPTED exactly for the rows so decided.
C5_AcceptedIffStatus202 ==
  script = "update" =>
    /\ pc = "mark" =>
         /\ (markArgs.status = S_ACCEPTED) <=> (resp.kind = "response" /\ resp.status = 202)
         /\ markArgs.status # S_ACCEPTED => str_startswith(markArgs.status, S_FAILED_open)
         /\ (rowState[index + 1] = "ACCEPTED") <=> (markArgs.status = S_ACCEPTED)
    /\ \A i \in 0..(Len(df.data) - 1) :
         (status_col_of(book.hdr) # 0 /\ ~row_untouched(i)) =>
           ((book.rows[i + 1][status_col_of(book.hdr)] = PyStr(S_ACCEPTED))
              <=> (rowState[i + 1] = "ACCEPTED"))

\* C5 witness: a row was decided ACCEPTED and written, and the POST of a later
\* row was answered 200, which is being written as a failure.
C5_Witness ==
  /\ script = "update" /\ pc = "mark"
  /\ resp.kind = "response" /\ resp.status = 200
  /\ markArgs.status # S_ACCEPTED
  /\ \E i \in 0..(Len(df.data) - 1) : rowState[i + 1] = "ACCEPTED" /\ ~row_untouched(i)

\* The category cell of the row at position i holds no category: it is empty,
\* or holds nothing but whitespace and commas.
category_list_empty(i) ==
  LET v == row_get(df, i, H_Cats, PyStr(<<>>))
  IN  v.t # "str" \/ \A n \in 1..Len(v.s) : v.s[n] \in Whitespace \cup {","}

\* C6 as stated: for an eligible row whose category list is empty, or holds only
\* whitespace and commas, no GET and no POST is issued and the row is never
\* ACCEPTED.
C6_EmptyCategoriesNoRequest ==
  script = "update" =>
    \A i \in 0..(Len(df.data) - 1) :
      (match_normalised(i) = S_OK /\ category_list_empty(i)) =>
        /\ requests_for(i) = {}
        /\ rowState[i + 1] # "ACCEPTED"

\* The row at position i has what line 219 to line 237 ask of a row before any
\* request is made for it: match value OK, a name, an extId and a category.
row_to_process(i) ==
  /\ match_normalised(i) = S_OK
  /\ row_field(df, i, H_VMName) # <<>>
  /\ row_field(df, i, H_VMextId) # <<>>
  /\ row_field(df, i, H_Cats) # <<>>
  /\ parse_category_uuids(row_field(df, i, H_Cats)) # <<>>

\* The processing of a row has come to its end.
row_finished(i) ==
  rowState[i + 1] \in { "SKIPPED", "MISSING_DATA", "NO_CATEGORIES", "READ_FAILED",
                        "ACCEPTED", "FAILED" }

\* C7: whatever happens to a row (transport error, error status, missing ETag,
\* a failed write to the sheet), the run goes on: the run ends with exit code 0
\* only after every row was examined, it ends with exit code 1 only before the
\* first row, and every row passed that was to be processed got its GET.
C7_LaterRowsStillProcessed ==
  script = "update" =>
    /\ (pc = "exit" /\ exitCode = 0) =>
         /\ index = Len(df.data)
         /\ \A i \in 0..(Len(df.data) - 1) : row_finished(i)
    /\ (pc = "exit" /\ exitCode # 0) =>
         /\ index = 0 /\ httpLog = <<>>
         /\ \A i \in 1..Len(rowState) : rowState[i] = "PENDING"
    /\ \A i \in 0..(Len(df.data) - 1) :
         /\ i < index => row_finished(i)
         /\ (i < index /\ row_to_process(i)) =>
              /\ requests_for(i) # {}
              /\ rowState[i + 1] \in { "READ_FAILED", "ACCEPTED", "FAILED" }
         /\ i > index => rowState[i + 1] = "PENDING"

\* C7 witness: the run ended with exit code 0; the POST of one row failed and the
\* write of that outcome to a sheet with a status column failed too, and a later
\* row was nevertheless processed and accepted.
C7_Witness ==
  /\ script = "update" /\ pc = "exit" /\ exitCode = 0
  /\ status_col_of(book.hdr) # 0
  /\ \E i, j \in 0..(Len(df.data) - 1) :
       /\ i < j
       /\ rowState[i + 1] = "FAILED" /\ row_untouched(i)
       /\ rowState[j + 1] = "ACCEPTED"

\* C8: the cells of a row that is not eligible (its match value, as line 217
\* and line 219 read it, is not OK) are in the workbook what they were when the
\* run began: neither its status nor its timestamp cell is ever written.
C8_IneligibleRowsUntouched ==
  script = "update" =>
    /\ book.hdr = df.columns \/ df = NoFrame
    /\ \A i \in 0..(Len(df.data) - 1) : match_normalised(i) # S_OK => row_untouched(i)

\* C8 witness: the run ended; a row that is not eligible still holds the status
\* and timestamp an earlier run gave it, and another row was written.
C8_Witness ==
  /\ script = "update" /\ pc = "exit"
  /\ status_col_of(book.hdr) # 0
  /\ timestamp_col_of(book.hdr) # 0
  /\ \E i, j \in 0..(Len(df.data) - 1) :
       /\ match_normalised(i) # S_OK
       /\ book.rows[i + 1][status_col_of(book.hdr)] = PyStr(S_ACCEPTED)
       /\ book.rows[i + 1][timestamp_col_of(book.hdr)] = PyStr(T_before)
       /\ ~row_untouched(j)

\* ========================================================================
\* Properties of all three scripts
\* ========================================================================
\* A line of vars.txt gives a value to key: it is no comment and the text before
\* its first '=' is, but for surrounding whitespace, the key.
line_gives(line, key) ==
  LET s == str_strip(line)
  IN  /\ s # <<>>
      /\ s[1] # "#"
      /\ str_find(s, "=") # 0
      /\ str_strip(SubSeq(s, 1, str_find(s, "=") - 1)) = key

\* vars.txt is absent, or none of its lines gives a value to key.
config_lacks(file, key) ==
  ~file.exists \/ \A n \in 1..Len(file.lines) : ~line_gives(file.lines[n], key)

\* C9: in each of the three scripts, when vars.txt is absent or lacks baseUrl,
\* username or password, the process ends with exit code 1 and issues no HTTP
\* request: it is never anywhere but at its start or at that exit.
C9_IncompleteConfigFailsBeforeHttp ==
  (\E key \in { K_baseUrl, K_username, K_password } : config_lacks(varsFile, key)) =>
    /\ httpLog = <<>>
    /\ pc \in { "start", "exit" }
    /\ pc = "exit" => exitCode = 1

\* C9 witness: the provisioning script, started with --do-it on a vars.txt that
\* exists and gives baseUrl and username but no password, has exited with code 1.
C9_Witness ==
  /\ script = "experimental" /\ args.do_it
  /\ varsFile.exists
  /\ ~config_lacks(varsFile, K_baseUrl) /\ ~config_lacks(varsFile, K_username)
  /\ config_lacks(varsFile, K_password)
  /\ pc = "exit" /\ exitCode = 1

\* ========================================================================
\* Properties of experimental/deploy_windows_vm.py
\* ========================================================================
\* The POST requests the running process has issued.
posts_issued == { k \in 1..Len(httpLog) : httpLog[k].method = "POST" }

\* The process that runs now has built a payload for the very image and network
\* the dry run before it had built one for.
same_selection_as_dry_run ==
  /\ script = "experimental"
  /\ prior.built /\ prior.dry_run /\ ~args.dry_run
  /\ vm_payload # NoPayload
  /\ selected_image = prior.image
  /\ selected_network = prior.network

\* C10 as stated: a dry run issues no POST, and the payload it builds is, field
\* by field and value by value, the payload a run without --dry-run builds for
\* the same image and network.
C10_DryRunSamePayload ==
  /\ IsDryRun => posts_issued = {}
  /\ same_selection_as_dry_run => vm_payload = prior.payload

\* C10 amended: a dry run issues no POST, and the payload it builds has the
\* fields and the values of the payload a run without --dry-run builds for the
\* same image and network, but for name: each payload's name is the VM_NAME its
\* own process computed from the time it started.
C10_DryRunSamePayloadButName ==
  /\ IsDryRun => posts_issued = {}
  /\ IsDryRun /\ vm_payload # NoPayload => vm_payload.name = VM_NAME
  /\ same_selection_as_dry_run =>
       /\ DOMAIN vm_payload = DOMAIN prior.payload
       /\ \A f \in DOMAIN vm_payload : f # "name" => vm_payload[f] = prior.payload[f]
       /\ vm_payload.name = VM_NAME

\* C10 witness: after a dry run, the same command line without --dry-run was run
\* in a later second, the same image and network were selected, and the payload,
\* whose name differs from the dry run's, was sent.
C10_Witness ==
  /\ same_selection_as_dry_run
  /\ posts_issued # {}
  /\ vm_payload.name # prior.payload.name

\* vars.txt gives a value to each of the three required keys.
config_complete ==
  \A key \in { K_baseUrl, K_username, K_password } : ~config_lacks(varsFile, key)

\* C11 as stated: --dry-run without --do-it passes the safety check: such a run
\* does not end with a failure exit unless its configuration is incomplete or a
\* request it issued went wrong.
C11_DryRunAlonePassesSafetyCheck ==
  (/\ script = "experimental" /\ args.dry_run /\ ~args.do_it
   /\ ~ALLOW_EXECUTION_WITHOUT_DOIT
   /\ pc = "exit" /\ exitCode # 0)
    => (~config_complete \/ httpLog # <<>>)

last_request == httpLog[Len(httpLog)]

\* Positions (1-based) of the inventory entries whose name is wanted exactly,
\* and of those whose name is wanted when case is ignored.
exact_hits(doc, wanted) ==
  { i \in 1..Len(doc.data) : item_get(doc.data[i].name, <<>>) = wanted }

nocase_hits(doc, wanted) ==
  { i \in 1..Len(doc.data) :
      str_lower(item_get(doc.data[i].name, <<>>)) = str_lower(wanted) }

\* The least member of a non-empty set of positions, 0 for the empty set.
least(S) == IF S = {} THEN 0 ELSE CHOOSE i \in S : \A j \in S : i <= j

\* What a lookup by name has to give: the first exact match, else the first
\* match ignoring case, else nothing (failed).
lookup_agrees(doc, wanted, sel, failed) ==
  LET n == IF exact_hits(doc, wanted) # {} THEN least(exact_hits(doc, wanted))
           ELSE least(nocase_hits(doc, wanted))
  IN  IF n = 0 THEN failed
      ELSE /\ ~failed
           /\ sel.found
           /\ sel.name = item_get(doc.data[n].name, S_Unknown)
           /\ sel.ext_id = item_get(doc.data[n].extId, S_Unknown)

\* C13: find_image_by_name and find_network_by_name return the first entry
\* whose name equals the requested name, even when an entry that matches only
\* when case is ignored comes earlier; without an exact match the first entry
\* matching when case is ignored; and None only when there is neither.
C13_ExactMatchBeforeCaseInsensitive ==
  (/\ script = "experimental" /\ httpLog # <<>>
   /\ resp.kind = "response" /\ resp.status = 200 /\ resp.body = "json") =>
    /\ (last_request.target.path = "images" /\ args.image_name.t = "str"
        /\ args.image_name.s # <<>>) =>
         lookup_agrees(resp.doc, args.image_name.s, selected_image,
                       pc = "exit" /\ exitCode = 1)
    /\ (last_request.target.path = "subnets" /\ args.subnet.t = "str"
        /\ args.subnet.s # <<>>) =>
         lookup_agrees(resp.doc, args.subnet.s, selected_network,
                       pc = "exit" /\ exitCode = 1)

\* C13 witness: the inventory lists 'win' before 'Win', --image-name is 'Win',
\* and the second entry was selected.
C13_Witness ==
  /\ script = "experimental" /\ pc = "network"
  /\ args.image_name = PyStr(N_Win)
  /\ resp.kind = "response" /\ Len(resp.doc.data) = 2
  /\ resp.doc.data[1].name = PyStr(N_win)
  /\ resp.doc.data[2].name = PyStr(N_Win)
  /\ selected_image.ext_id = item_get(resp.doc.data[2].extId, S_Unknown)
  /\ selected_image.ext_id # item_get(resp.doc.data[1].extId, S_Unknown)

\* ========================================================================
\* Properties of the provisioning scripts
\* ========================================================================
\* C14 as stated: when the creation POST is answered with a 2xx status, whatever
\* the body, the run is a success: it ends with exit code 0 and the deployment
\* record is written (the attempt to write it is made).
C14_Any2xxCreationIsSuccess ==
  (/\ IsDeploy /\ httpLog # <<>> /\ last_request.method = "POST"
   /\ resp.kind = "response" /\ resp.status >= 200 /\ resp.status < 300
   /\ pc = "exit")
    => (exitCode = 0 /\ recordFile # "none")

\* The inventory answered last names no entry that is wanted, exactly or when
\* case is ignored.
absent_from_inventory(wanted) ==
  /\ resp.kind = "response" /\ resp.status = 200 /\ resp.body \in { "json", "empty" }
  /\ nocase_hits(resp.doc, wanted) = {}

\* C15: when --image-name or --subnet names an entry that the inventory does not
\* hold, the flags script exits with code 1; nothing is offered at the prompt
\* and no POST is issued.
C15_NamedButAbsentIsFatal ==
  (script = "experimental" /\ httpLog # <<>>) =>
    /\ (/\ last_request.target.path = "images"
        /\ args.image_name.t = "str" /\ args.image_name.s # <<>>
        /\ absent_from_inventory(args.image_name.s)) =>
         (pc = "exit" /\ exitCode = 1 /\ listed = <<>> /\ posts_issued = {})
    /\ (/\ last_request.target.path = "subnets"
        /\ args.subnet.t = "str" /\ args.subnet.s # <<>>
        /\ absent_from_inventory(args.subnet.s)) =>
         (pc = "exit" /\ exitCode = 1 /\ listed = <<>> /\ posts_issued = {})

\* C15 witness: the image was picked at the prompt, --subnet names a subnet the
\* non-empty inventory does not hold, and the script has exited with code 1.
C15_Witness ==
  /\ script = "experimental" /\ httpLog # <<>>
  /\ last_request.target.path = "subnets"
  /\ args.subnet = PyStr(N_nope)
  /\ absent_from_inventory(N_nope) /\ resp.doc.data # <<>>
  /\ selected_image.found
  /\ pc = "exit" /\ exitCode = 1

\* The timestamps a mark call of this run can carry.
stamps == { PyStr(Clock[t].dmy_hm) : t \in 1..Len(Clock) }

columns_not_located ==
  \A c \in 1..Len(book.hdr) :
    /\ ~str_contains(str_lower(book.hdr[c]), str_lower(K_STATUS))
    /\ ~str_contains(str_lower(book.hdr[c]), str_lower(K_TIMESTAMP))

\* C17: when neither the status column nor the timestamp column can be located
\* in the sheet, update_excel_status changes no cell, and the run is not
\* aborted: it ends with exit code 0 after the last row, and the records after
\* the one being marked are processed.
C17_NoColumnsNoChange ==
  (script = "update" /\ df # NoFrame /\ columns_not_located) =>
    /\ read_excel(book) = df
    /\ pc = "exit" => (exitCode = 0 /\ index = Len(df.data))
    /\ \A i \in 0..(Len(df.data) - 1) :
         (i < index /\ row_to_process(i)) => requests_for(i) # {}

\* C17 witness: in a sheet without the two columns the call for the first record
\* went through, and the second record was then processed up to its own outcome.
C17_Witness ==
  /\ script = "update" /\ columns_not_located
  /\ pc = "exit" /\ Len(df.data) = 2
  /\ rowState[1] = "ACCEPTED" /\ saved[1] = "updated"
  /\ rowState[2] \in { "ACCEPTED", "FAILED" } /\ saved[2] = "updated"

\* The request issued last was answered, and the answer is still at hand.
last_answer_failed_4xx_5xx ==
  \/ resp.kind = "error"
  \/ resp.kind = "response" /\ resp.status >= 400 /\ resp.status < 600

\* C18 as stated: in the provisioning scripts a request that ends in a non-2xx
\* status or in a transport failure is fatal: the process has exited with a
\* non-zero code (and so issues nothing further).
C18_Non2xxIsFatal ==
  (/\ IsDeploy /\ httpLog # <<>>
   /\ \/ resp.kind = "error"
      \/ resp.kind = "response" /\ ~(resp.status >= 200 /\ resp.status < 300))
    => (pc = "exit" /\ exitCode # 0)

\* C18 amended: in the provisioning scripts a request that ends in a 4xx or 5xx
\* status or in a transport failure is fatal: the process has exited with a
\* non-zero code (and so issues nothing further).
C18_ErrorStatusIsFatal ==
  (IsDeploy /\ httpLog # <<>> /\ last_answer_failed_4xx_5xx)
    => (pc = "exit" /\ exitCode # 0)

\* C18 witness: the connection test went through, the listing of the images was
\* answered 500, and the process has exited with code 1 after these two requests.
C18_Witness ==
  /\ IsDeploy /\ Len(httpLog) = 2
  /\ last_request.target.path = "images"
  /\ resp.kind = "response" /\ resp.status = 500
  /\ pc = "exit" /\ exitCode = 1

\* C19: the bulk update handles one record at a time and uses each token once,
\* for the record it was read for: every POST comes directly after the GET of
\* the same record and the same VM, carries as If-Match the ETag that GET
\* returned, and no request for an earlier record follows one for a later.
C19_TokenFromTheGetJustBefore ==
  script = "update" =>
    /\ \A k \in 1..Len(httpLog) :
         httpLog[k].method = "POST" =>
           /\ k > 1
           /\ httpLog[k - 1].method = "GET"
           /\ httpLog[k - 1].row = httpLog[k].row
           /\ httpLog[k - 1].target.extId = httpLog[k].target.extId
           /\ PyStr(httpLog[k].headers["If-Match"].value) = httpLog[k - 1].reply_etag
    /\ \A j, k \in 1..Len(httpLog) : j < k => httpLog[j].row <= httpLog[k].row
    /\ \A j, k \in 1..Len(httpLog) :
         (j < k /\ httpLog[j].row = httpLog[k].row) =>
           (k = j + 1 /\ httpLog[j].method = "GET" /\ httpLog[k].method = "POST")

\* C19 witness: two records were read and written, the API having returned a
\* different ETag for each, and each POST carries its own.
C19_Witness ==
  /\ script = "update" /\ Len(httpLog) = 4
  /\ httpLog[2].method = "POST" /\ httpLog[4].method = "POST"
  /\ httpLog[1].reply_etag # httpLog[3].reply_etag
  /\ httpLog[2].headers["If-Match"].value # httpLog[4].headers["If-Match"].value

\* How far a per-record state is along PENDING, (skipped | eligible), read,
\* (read failed | read ok), write, outcome.
state_rank(s) ==
  IF s = "PENDING" THEN 0
  ELSE IF s = "ELIGIBLE" THEN 1
  ELSE IF s = "READ" THEN 2
  ELSE IF s = "READ_OK" THEN 3
  ELSE IF s = "WRITE" THEN 4
  ELSE 5

\* C20: a record is processed at most once: at most one GET and at most one
\* POST are issued for it, its per-record state only moves forward and, once
\* terminal, stays, and its row of the sheet is written by at most one call.
C20_EachRecordAtMostOnce ==
  /\ [](script = "update" =>
          \A i \in 0..(Len(df.data) - 1) :
            /\ Cardinality({ k \in requests_for(i) : httpLog[k].method = "GET" }) <= 1
            /\ Cardinality({ k \in requests_for(i) : httpLog[k].method = "POST" }) <= 1)
  /\ [][script = "update" =>
          \A i \in 1..Len(rowState) :
            /\ rowState'[i] # rowState[i] => state_rank(rowState'[i]) > state_rank(rowState[i])
            /\ saved[i] # "no call" => saved'[i] = saved[i]
            /\ book'.rows[i] # book.rows[i] => (saved[i] = "no call" /\ saved'[i] = "updated")]_vars

\* C20 witness: the run ended; one record had one GET, one POST and one stored
\* outcome, another had its one GET only.
C20_Witness ==
  /\ script = "update" /\ pc = "exit"
  /\ \E i, j \in 0..(Len(df.data) - 1) :
       /\ Cardinality(requests_for(i)) = 2 /\ saved[i + 1] = "updated"
       /\ ~row_untouched(i)
       /\ Cardinality(requests_for(j)) = 1 /\ rowState[j + 1] = "READ_FAILED"

\* ------------------------------------------------------------------------
\* C21
\* ------------------------------------------------------------------------
\* The positions of the commas of a string, and the j-th boundary of its
\* comma-separated entries (0: before the string, beyond the last comma: after it).
comma_positions(s) == { p \in 1..Len(s) : s[p] = "," }

entry_boundary(s, j) ==
  IF j = 0 THEN 0
  ELSE IF j > Cardinality(comma_positions(s)) THEN Len(s) + 1
  ELSE CHOOSE p \in comma_positions(s) :
         Cardinality({ q \in comma_positions(s) : q < p }) = j - 1

\* The comma-separated entries of a string, each without its surrounding
\* whitespace, the empty ones left out, in the order of the string.
trimmed_entries(s) ==
  LET nonempty(x) == x # <<>>
      entry(j)    == SubSeq(s, entry_boundary(s, j - 1) + 1, entry_boundary(s, j) - 1)
  IN  SelectSeq([j \in 1..(Cardinality(comma_positions(s)) + 1) |-> str_strip(entry(j))],
                nonempty)

\* The category cell of the row at position i, as text.
category_text(i) == py_str(row_get(df, i, H_Cats, PyStr(<<>>)))

\* C21: the payload of every POST of the bulk update is
\* {"categories": [{"extId": x}, ...]} where the x are exactly the
\* comma-separated entries of the row's category string, trimmed, the empty ones
\* dropped, in their order and with duplicates kept; the payload is a function
\* of the string alone, so two POSTs built from the same string carry the same
\* payload.
C21_PayloadListsTrimmedEntries ==
  script = "update" =>
    /\ \A k \in posts_issued :
         LET want == trimmed_entries(category_text(httpLog[k].row))
         IN  httpLog[k].json = [categories |-> [n \in 1..Len(want) |-> [extId |-> want[n]]]]
    /\ \A k \in posts_issued : \A m \in posts_issued :
         category_text(httpLog[k].row) = category_text(httpLog[m].row)
           => httpLog[k].json = httpLog[m].json

\* A POST was sent for a category string with an empty entry between two equal
\* entries: the payload holds the entry twice.
C21_Witness ==
  /\ script = "update"
  /\ \E k \in posts_issued :
       /\ Cardinality(comma_positions(category_text(httpLog[k].row))) = 2
       /\ Len(httpLog[k].json.categories) = 2
       /\ httpLog[k].json.categories[1] = httpLog[k].json.categories[2]

\* ------------------------------------------------------------------------
\* C22
\* ------------------------------------------------------------------------
\* The GETs of the log whose response carried a non-empty ETag header.
gets_answered_with_etag ==
  { k \in 1..Len(httpLog) : httpLog[k].method = "GET" /\ Truthy(httpLog[k].reply_etag) }

\* C22 as stated: whenever the GET receives a response that carries an ETag
\* header, make_get_request returns that ETag to its caller, whatever the status
\* code and whether or not the body is JSON: once the caller has the result, the
\* row is not taken for one without ETag, and the token the caller holds is the
\* one of the header.
C22_ETagAlwaysReturned ==
  script = "update" =>
    \A k \in gets_answered_with_etag :
      /\ rowState[httpLog[k].row + 1] # "READ_FAILED"
      /\ (rowState[httpLog[k].row + 1] = "READ_OK" /\ index = httpLog[k].row)
           => loc.vm_etag = httpLog[k].reply_etag

\* ------------------------------------------------------------------------
\* C23
\* ------------------------------------------------------------------------
\* The bulk update has come to its end over the table it read: every row is in
\* a terminal state and the script completed.
run_completed ==
  /\ pc = "exit" /\ exitCode = 0
  /\ \A i \in 0..(Len(df.data) - 1) : row_finished(i)

\* C23: every HTTP call returning or failing, a bulk-update run over the table it
\* has read terminates: the script completes, with every row in a terminal state
\* (skipped, read failed, ACCEPTED or FAILED); at no time were more than two HTTP
\* calls issued for a row.
C23_RunTerminates ==
  /\ (script = "update" /\ pc = "loop") ~> (script = "update" /\ run_completed)
  /\ [](script = "update" => \A i \in 0..(Len(df.data) - 1) : Cardinality(requests_for(i)) <= 2)

\* A run over two rows has completed: the first row took its two calls, the
\* second one ended after its GET.
C23_Witness ==
  /\ script = "update" /\ Len(df.data) = 2 /\ run_completed
  /\ Cardinality(requests_for(0)) = 2
  /\ Cardinality(requests_for(1)) = 1 /\ rowState[2] = "READ_FAILED"

\* ------------------------------------------------------------------------
\* C24
\* ------------------------------------------------------------------------
\* The text of the outcome of the record at position i, once decided, fits the
\* cell: 'ACCEPTED', or 'FAILED (...' with the status code or N/A.
outcome_fits(i, cell) ==
  /\ rowState[i + 1] \in { "ACCEPTED", "FAILED" }
  /\ cell.t = "str"
  /\ IF rowState[i + 1] = "ACCEPTED"
     THEN cell.s = S_ACCEPTED
     ELSE str_startswith(cell.s, S_FAILED_open)

\* C24: the outcome of a record is attached to its own row only.  A step of the
\* bulk update that changes the workbook is made for the record at the loop's
\* index i, changes no cell but the status cell and the timestamp cell of data
\* row i + 1 (sheet row i + 2, the header being sheet row 1), writes both of
\* them in that one step (each in the column the sheet has for it), and leaves
\* every other row as it was.
C24_OutcomeOnOwnRowOnly ==
  [][ (script = "update" /\ book' # book) =>
        /\ book'.hdr = book.hdr /\ book'.exists = book.exists
        /\ Len(book'.rows) = Len(book.rows)
        /\ \A j \in 1..Len(book.rows) : \A c \in 1..Len(book.hdr) :
             book'.rows[j][c] # book.rows[j][c] =>
               /\ j = index + 1
               /\ c \in { status_col_of(book.hdr), timestamp_col_of(book.hdr) }
        /\ status_col_of(book.hdr) # 0 =>
             outcome_fits(index, book'.rows[index + 1][status_col_of(book.hdr)])
        /\ timestamp_col_of(book.hdr) # 0 =>
             book'.rows[index + 1][timestamp_col_of(book.hdr)] \in stamps ]_vars

\* Two records were processed with different outcomes and each row of the sheet
\* holds the outcome of its own record.
C24_Witness ==
  /\ script = "update" /\ pc = "exit" /\ Len(book.rows) = 2
  /\ rowState = <<"ACCEPTED", "FAILED">>
  /\ status_col_of(book.hdr) # 0 /\ timestamp_col_of(book.hdr) # 0
  /\ book.rows[1][status_col_of(book.hdr)] = PyStr(S_ACCEPTED)
  /\ outcome_fits(1, book.rows[2][status_col_of(book.hdr)])
  /\ book.rows[1][timestamp_col_of(book.hdr)] \in stamps
  /\ book.rows[2][timestamp_col_of(book.hdr)] \in stamps

\* ------------------------------------------------------------------------
\* C25
\* ------------------------------------------------------------------------
\* The header names a POST of the bulk update adds to the shared ones.
post_only_headers == { "If-Match", "NTNX-Request-Id", "Content-Type" }

\* C25: per-record processing never modifies the shared authentication headers.
\* Once they are created they stay what they are, holding Authorization alone;
\* every GET carries exactly that header, so no If-Match of an earlier record
\* goes out with a later record's GET; the three headers of a POST are set on a
\* copy, which carries the same Authorization.
C25_SharedHeadersNeverModified ==
  /\ [](script = "update" =>
          /\ DOMAIN auth_headers \subseteq { "Authorization" }
          /\ \A k \in 1..Len(httpLog) :
               IF httpLog[k].method = "GET"
               THEN /\ DOMAIN httpLog[k].headers = { "Authorization" }
                    /\ httpLog[k].headers = auth_headers
               ELSE /\ DOMAIN httpLog[k].headers = { "Authorization" } \cup post_only_headers
                    /\ httpLog[k].headers["Authorization"] = auth_headers["Authorization"])
  /\ [][(script = "update" /\ pc # "start") => auth_headers' = auth_headers]_vars

\* The GET of the second record went out after the POST of the first, which
\* carried an If-Match, and carries the Authorization header alone.
C25_Witness ==
  /\ script = "update" /\ Len(httpLog) >= 3
  /\ httpLog[2].method = "POST" /\ httpLog[2].row = 0
  /\ "If-Match" \in DOMAIN httpLog[2].headers
  /\ httpLog[3].method = "GET" /\ httpLog[3].row = 1
  /\ DOMAIN httpLog[3].headers = { "Authorization" }

\* ------------------------------------------------------------------------
\* C26
\* ------------------------------------------------------------------------
\* What was typed at the confirmation prompt is, surrounding whitespace and
\* case left aside, 'y' or 'yes'.
answered_yes ==
  /\ confirmInput.t = "str"
  /\ str_lower(str_strip(confirmInput.s)) \in { <<"y">>, <<"y","e","s">> }

\* C26: in both provisioning scripts the creation POST is issued, and is about
\* to be issued, only after the prompt was answered 'y' or 'yes' and after an
\* image and a network were selected; after any other answer the run has ended
\* with exit code 0 and without a POST.
C26_PostOnlyAfterConfirmation ==
  IsDeploy =>
    /\ (posts_issued # {} \/ pc = "deploy") =>
         /\ answered_yes
         /\ selected_image.found /\ selected_network.found
    /\ (confirmInput.t = "str" /\ ~answered_yes) =>
         /\ pc = "exit" /\ exitCode = 0
         /\ posts_issued = {}

\* The prompt was answered ' YES ' and the creation POST went out.
C26_Witness ==
  /\ IsDeploy
  /\ confirmInput = PyStr(<<" ","Y","E","S"," ">>)
  /\ posts_issued # {}
  /\ selected_image.found /\ selected_network.found

====
